---- MODULE Spec2Model ----
(***************************************************************************)
(* A model of the althtml compiler (src/althtml/compiler.py), of           *)
(* successive compile calls made on one instance of it, and of the         *)
(* recompilation passes of the watcher (src/althtml/watcher.py).           *)
(*                                                                         *)
(* Text is modelled as a sequence of one-character strings, "\n" included, *)
(* so that every string operation of the code (strip, find, replace,       *)
(* split, the regular expressions) is computed character by character.     *)
(* Indices into a line array are 0-based as in the code; a TLA+ sequence   *)
(* is 1-based, so lines[i] of the code is lines[i + 1] here.               *)
(***************************************************************************)
EXTENDS Integers, Sequences, FiniteSets, TLC

VARIABLES
    frames,     \* call stack of AlthtmlCompiler instances; frames[1] is the caller's
    dicts,      \* the dict objects alive; an instance's tables are references into it
    status,     \* "idle" | "running" | "done" | "error" : where the top-level call is
    result,     \* value returned by the last top-level compile ("done")
    error,      \* kind of the exception that ended the last call ("error")
    source,     \* the text handed to the current / last top-level compile
    prev,       \* source, outcome and result of the top-level call before that
    calls,      \* number of top-level compile calls started on the instance
    watch,      \* the ChangeHandler: its path collections and where its pass is
    disk        \* the files: path -> content

vars == <<frames, dicts, status, result, error, source, prev, calls, watch, disk>>

-----------------------------------------------------------------------------
(* Bounds of the model *)

MaxCalls == 2      \* top-level compile calls made on one instance
MaxLines == 3      \* lines of a generated source
MaxDepth == 3      \* nested compiler instances before the interpreter's
                   \* recursion limit is taken to be hit

-----------------------------------------------------------------------------
(* Characters and Python string operations *)

NL  == "\n"
TAB == "\t"
SP  == " "
QUOTE == "\""
BACKSLASH == "\\"

LowerLetters == <<"a","b","c","d","e","f","g","h","i","j","k","l","m",
                  "n","o","p","q","r","s","t","u","v","w","x","y","z">>
UpperLetters == <<"A","B","C","D","E","F","G","H","I","J","K","L","M",
                  "N","O","P","Q","R","S","T","U","V","W","X","Y","Z">>
Digits == <<"0","1","2","3","4","5","6","7","8","9">>

Range(s) == {s[k] : k \in 1..Len(s)}

\* \s of the regular expressions and the default of str.strip(), over the
\* characters of the model
Whitespace == {SP, TAB, NL}

\* [a-zA-Z0-9_-]
IdentChars == Range(LowerLetters) \cup Range(UpperLetters) \cup Range(Digits) \cup {"_", "-"}

Min(S) == CHOOSE x \in S : \A y \in S : x <= y
Max(S) == CHOOSE x \in S : \A y \in S : x >= y

\* s[n:]
Drop(s, n) == IF n >= Len(s) THEN <<>> ELSE SubSeq(s, n + 1, Len(s))
\* s[:n]
Take(s, n) == IF n >= Len(s) THEN s ELSE SubSeq(s, 1, n)

StartsWith(s, p) == Len(p) <= Len(s) /\ SubSeq(s, 1, Len(p)) = p
EndsWith(s, p) == Len(p) <= Len(s) /\ SubSeq(s, Len(s) - Len(p) + 1, Len(s)) = p

\* str.find: 0-based index of the first occurrence, -1 if none
FirstOf(at) == IF at = {} THEN -1 ELSE Min(at)
Find(s, p) == FirstOf({k \in 0..(Len(s) - Len(p)) : SubSeq(s, k + 1, k + Len(p)) = p})

\* str.count for a single character
Count(s, c) == Cardinality({k \in 1..Len(s) : s[k] = c})

\* length of the longest prefix of s made of characters of set
RECURSIVE PrefixLen(_, _)
PrefixLen(s, set) ==
    IF s = <<>> \/ Head(s) \notin set THEN 0 ELSE 1 + PrefixLen(Tail(s), set)

RECURSIVE SuffixLen(_, _)
SuffixLen(s, set) ==
    IF s = <<>> \/ s[Len(s)] \notin set THEN 0
    ELSE 1 + SuffixLen(SubSeq(s, 1, Len(s) - 1), set)

LStrip(s) == Drop(s, PrefixLen(s, Whitespace))
RStrip(s) == Take(s, Len(s) - SuffixLen(s, Whitespace))
Strip(s)  == LStrip(RStrip(s))
\* line.rstrip('\r\n')
RStripNewline(s) == Take(s, Len(s) - SuffixLen(s, {NL}))

\* str.replace(old, new) for a non-empty old: every non-overlapping occurrence,
\* left to right, in one pass
RECURSIVE Replace(_, _, _)
Replace(s, old, new) ==
    IF Len(s) < Len(old) \/ old = <<>> THEN s
    ELSE IF StartsWith(s, old) THEN new \o Replace(Drop(s, Len(old)), old, new)
    ELSE <<Head(s)>> \o Replace(Tail(s), old, new)

\* s.split(sep)[0]
UpTo(s, k) == IF k = -1 THEN s ELSE Take(s, k)
BeforeFirst(s, sep) == UpTo(s, Find(s, sep))

\* str.split() : the maximal runs of non-whitespace characters
RECURSIVE SplitWords(_)
WordThenWords(t, n) == <<Take(t, n)>> \o SplitWords(Drop(t, n))
WordsOf(t) == IF t = <<>> THEN <<>> ELSE WordThenWords(t, PrefixLen(t, Range(t) \ Whitespace))
SplitWords(s) == WordsOf(LStrip(s))

\* sep.join(parts)
RECURSIVE Join(_, _)
Join(parts, sep) ==
    IF parts = <<>> THEN <<>>
    ELSE IF Len(parts) = 1 THEN parts[1]
    ELSE parts[1] \o sep \o Join(Tail(parts), sep)

\* str.splitlines(keepends=True), "\n" being the only line break of the model
RECURSIVE SplitLinesKeep(_)
LinesKeepAt(s, k) ==
    IF s = <<>> THEN <<>>
    ELSE IF k = -1 THEN <<s>>
    ELSE <<Take(s, k + 1)>> \o SplitLinesKeep(Drop(s, k + 1))
SplitLinesKeep(s) == LinesKeepAt(s, Find(s, <<NL>>))

\* str.splitlines()
RECURSIVE SplitLines(_)
LinesAt(s, k) ==
    IF s = <<>> THEN <<>>
    ELSE IF k = -1 THEN <<s>>
    ELSE <<Take(s, k)>> \o SplitLines(Drop(s, k + 1))
SplitLines(s) == LinesAt(s, Find(s, <<NL>>))

\* str.lower()
LowerChar(c) ==
    IF c \in Range(UpperLetters)
    THEN LowerLetters[CHOOSE k \in 1..26 : UpperLetters[k] = c]
    ELSE c
Lower(s) == [k \in 1..Len(s) |-> LowerChar(s[k])]

\* '  ' * n
Spaces(n) == [k \in 1..(2 * n) |-> SP]

\* str(n) for 0 <= n <= 99
IntToStr(n) ==
    IF n < 10 THEN <<Digits[n + 1]>>
    ELSE <<Digits[(n \div 10) + 1], Digits[(n % 10) + 1]>>

\* int(s) for a run of digits
RECURSIVE StrToInt(_)
StrToInt(s) ==
    IF s = <<>> THEN 0
    ELSE 10 * StrToInt(SubSeq(s, 1, Len(s) - 1))
         + ((CHOOSE k \in 1..10 : Digits[k] = s[Len(s)]) - 1)

-----------------------------------------------------------------------------
(* Dictionaries: a Python dict keeps insertion order, so a table is a       *)
(* sequence of entries; assigning an existing key keeps its position.       *)

Keys(d) == [k \in 1..Len(d) |-> d[k].name]
Has(d, name) == \E k \in 1..Len(d) : d[k].name = name
Get(d, name) == d[CHOOSE k \in 1..Len(d) : d[k].name = name]
Put(d, entry) ==
    IF Has(d, entry.name)
    THEN [k \in 1..Len(d) |-> IF d[k].name = entry.name THEN entry ELSE d[k]]
    ELSE Append(d, entry)

\* the text of an f-string field: the characters of s as one string
RECURSIVE Str(_)
Str(s) == IF s = <<>> THEN "" ELSE Head(s) \o Str(Tail(s))

-----------------------------------------------------------------------------
(* AlthtmlCompiler._get_indent_level *)

\* re.match(r"^\s*", line).group(0)
LeadingWhitespace(line) == Take(line, PrefixLen(line, Whitespace))

\* re.match(r"^c+$", ws): one or more c, up to the end or to a final newline
RunOf(body, c) == body # <<>> /\ Range(body) = {c}
PureRun(ws, c) == RunOf(IF ws # <<>> /\ ws[Len(ws)] = NL THEN Take(ws, Len(ws) - 1) ELSE ws, c)

\* The level of a line whose leading whitespace is ws; the detected indent
\* size and type are state of the instance, so they are handed in and
\* returned. fatal is TRUE where the code raises "Inconsistent space
\* indentation".
LevelOf(indent_size, indent_type, ws) ==
    LET same(level) == [level |-> level, indent_size |-> indent_size,
                        indent_type |-> indent_type, fatal |-> FALSE]
        size == IF indent_size # 0 THEN indent_size
                ELSE IF ws[1] = TAB THEN 1 ELSE Len(ws)
        type == IF indent_size # 0 THEN indent_type
                ELSE IF ws[1] = TAB THEN "tab" ELSE "spaces"
        out(level, fatal) == [level |-> level, indent_size |-> size,
                              indent_type |-> type, fatal |-> fatal]
    IN  IF ws = <<>> THEN same(0)
        ELSE IF indent_size = 0 /\ ws[1] \notin {TAB, SP} THEN same(0)
        ELSE IF type = "tab"
             THEN IF ~PureRun(ws, TAB) THEN out(Count(ws, TAB), FALSE)
                  ELSE out(Len(ws), FALSE)
        ELSE IF ~PureRun(ws, SP) THEN out(Len(ws) \div size, FALSE)
        ELSE IF Len(ws) % size # 0 THEN out(0, TRUE)
        ELSE out(Len(ws) \div size, FALSE)

\* _get_indent_level(line)
get_indent_level(indent_size, indent_type, line) ==
    LevelOf(indent_size, indent_type, LeadingWhitespace(line))

-----------------------------------------------------------------------------
(* AlthtmlCompiler._close_tags *)

DOCTYPE == <<"!","d","o","c","t","y","p","e">>

\* the closing tag the code appends for a popped entry ("" for none)
ClosingText(entry) ==
    IF ~entry.self_closing /\ Lower(entry.tag_name) # DOCTYPE
    THEN Spaces(entry.indent_level) \o <<"<", "/">> \o entry.tag_name \o <<">", NL>>
    ELSE <<>>

\* a variant of close_tags whose loop tests > where the code tests >=, so
\* that an entry at the target level stays open
RECURSIVE close_tags_strict(_, _)
close_tags_strict(self, target_level) ==
    IF self.tag_stack # <<>>
       /\ self.tag_stack[Len(self.tag_stack)].indent_level > target_level
    THEN close_tags_strict([self EXCEPT
                               !.tag_stack = SubSeq(@, 1, Len(@) - 1),
                               !.html_output =
                                   @ \o ClosingText(self.tag_stack[Len(self.tag_stack)]),
                               !.popped =
                                   Append(@, [entry |-> self.tag_stack[Len(self.tag_stack)],
                                              closed |->
                                                  ClosingText(self.tag_stack[Len(self.tag_stack)])
                                                  # <<>>])],
                           target_level)
    ELSE self

\* a variant of close_tags with a test where the code has a loop: one entry
\* at most is popped
close_tags_once(self, target_level) ==
    IF self.tag_stack # <<>>
       /\ self.tag_stack[Len(self.tag_stack)].indent_level >= target_level
    THEN LET closing_tag == self.tag_stack[Len(self.tag_stack)]
         IN  [self EXCEPT
                 !.tag_stack = SubSeq(@, 1, Len(@) - 1),
                 !.html_output = @ \o ClosingText(closing_tag),
                 !.popped = Append(@, [entry |-> closing_tag,
                                       closed |-> ClosingText(closing_tag) # <<>>])]
    ELSE self

\* The while loop on the instance: pops while the top entry's level is
\* >= target_level. popped is the history of the call: each entry popped and
\* whether a closing tag was appended for it.
RECURSIVE close_tags(_, _)
close_tags(self, target_level) ==
    IF self.tag_stack # <<>>
       /\ self.tag_stack[Len(self.tag_stack)].indent_level >= target_level
    THEN LET closing_tag == self.tag_stack[Len(self.tag_stack)]
         IN  close_tags([self EXCEPT
                            !.tag_stack = SubSeq(@, 1, Len(@) - 1),
                            !.html_output = @ \o ClosingText(closing_tag),
                            !.popped = Append(@, [entry |-> closing_tag,
                                                  closed |-> ClosingText(closing_tag) # <<>>])],
                        target_level)
    ELSE self

-----------------------------------------------------------------------------
(* AlthtmlCompiler._substitute_variables *)

\* sorted(names, key=len, reverse=True): a stable sort, names of equal length
\* keep their insertion order
RECURSIVE LongestFirstFrom(_, _)
LongestFirstFrom(names, n) ==
    IF n < 0 THEN <<>>
    ELSE SelectSeq(names, LAMBDA x : Len(x) = n) \o LongestFirstFrom(names, n - 1)

\* a variant of line 105 without the sort: the names in insertion order
InsertionOrder(names) == names

SortedByLengthDesc(names) ==
    IF names = <<>> THEN <<>>
    ELSE LongestFirstFrom(names, Max({Len(names[k]) : k \in 1..Len(names)}))

RECURSIVE ReplaceEach(_, _, _)
ReplaceEach(text, var_names, variables) ==
    IF var_names = <<>> THEN text
    ELSE ReplaceEach(Replace(text, Head(var_names), Get(variables, Head(var_names)).value),
                     Tail(var_names), variables)

substitute_variables(variables, text) ==
    ReplaceEach(text, SortedByLengthDesc(Keys(variables)), variables)

-----------------------------------------------------------------------------
(* AlthtmlCompiler._parse_attributes *)

\* length of the match of (?:[^\s"]+|"[^"]*")+ at the start of s, 0 for none
RECURSIVE TokenLen(_)
QuotedLen(s, close) == IF close = -1 THEN 0 ELSE (close + 2) + TokenLen(Drop(s, close + 2))
BareLen(s, n) == n + TokenLen(Drop(s, n))
TokenLen(s) ==
    IF s = <<>> \/ Head(s) \in Whitespace THEN 0
    ELSE IF Head(s) = QUOTE THEN QuotedLen(s, Find(Tail(s), <<QUOTE>>))
    ELSE BareLen(s, PrefixLen(s, Range(s) \ (Whitespace \cup {QUOTE})))

\* re.findall(r'(?:[^\s"]+|"[^"]*")+', attr_string)
RECURSIVE Tokens(_)
TokensAt(s, n) ==
    IF n = 0 THEN Tokens(Tail(s))
    ELSE <<Take(s, n)>> \o Tokens(Drop(s, n))
Tokens(s) == IF s = <<>> THEN <<>> ELSE TokensAt(s, TokenLen(s))

\* a variant of the unique_classes loop that keeps the last occurrence
RECURSIVE UniqueKeepLast(_, _)
UniqueKeepLast(seen, rest) ==
    IF rest = <<>> THEN seen
    ELSE IF Head(rest) \in Range(Tail(rest)) THEN UniqueKeepLast(seen, Tail(rest))
    ELSE UniqueKeepLast(Append(seen, Head(rest)), Tail(rest))

\* the unique_classes loop: duplicates removed, first occurrence kept
RECURSIVE Unique(_, _)
Unique(seen, rest) ==
    IF rest = <<>> THEN seen
    ELSE IF Head(rest) \in Range(seen) THEN Unique(seen, Tail(rest))
    ELSE Unique(Append(seen, Head(rest)), Tail(rest))

EscapeQuotes(s) == Replace(s, <<QUOTE>>, <<"&","q","u","o","t",";">>)

\* value[1:-1].replace('\\"', '"')
Unquote(value) == Replace(Drop(Take(value, Len(value) - 1), 1), <<BACKSLASH, QUOTE>>, <<QUOTE>>)
\* value.startswith('"') and value.endswith('"')
IsQuoted(value) == StartsWith(value, <<QUOTE>>) /\ EndsWith(value, <<QUOTE>>)

\* lines 145-147: the value of a name=value token, unquoted
AttrValue(value) == IF IsQuoted(value) THEN Unquote(value) ELSE value

\* lines 152-159: a name=value token
NamedAttr(acc, name, escaped_value) ==
    IF Lower(name) = <<"c","l","a","s","s">>
    THEN [acc EXCEPT !.explicit_classes = @ \o SplitWords(escaped_value)]
    ELSE [acc EXCEPT !.other_attrs =
              @ \o <<SP>> \o name \o <<"=", QUOTE>> \o escaped_value \o <<QUOTE>>]

\* lines 137-162: the branch a substituted token takes
AttrOf(acc, token, eq) ==
    IF StartsWith(token, <<"#">>) THEN [acc EXCEPT !.id_value = @ \o Drop(token, 1)]
    ELSE IF eq # -1
    THEN NamedAttr(acc, Take(token, eq), EscapeQuotes(AttrValue(Drop(token, eq + 1))))
    ELSE [acc EXCEPT !.implicit_classes = Append(@, token)]

AttrSubstituted(acc, token) == AttrOf(acc, token, Find(token, <<"=">>))

\* one turn of the token loop on the accumulators
AttrToken(acc, raw_token, variables) ==
    AttrSubstituted(acc, substitute_variables(variables, raw_token))

RECURSIVE AttrTokens(_, _, _)
AttrTokens(acc, tokens, variables) ==
    IF tokens = <<>> THEN acc
    ELSE AttrTokens(AttrToken(acc, Head(tokens), variables), Tail(tokens), variables)

\* lines 165-184: the attribute string built from the accumulators
ClassString(all_classes) ==
    IF all_classes = <<>> THEN <<>>
    ELSE <<SP,"c","l","a","s","s","=",QUOTE>>
         \o Join(Unique(<<>>, all_classes), <<SP>>) \o <<QUOTE>>

IdString(id_value) ==
    IF id_value = <<>> THEN <<>>
    ELSE <<SP,"i","d","=",QUOTE>> \o EscapeQuotes(id_value) \o <<QUOTE>>

AttrString(acc) ==
    IdString(acc.id_value)
    \o ClassString(acc.implicit_classes \o acc.explicit_classes)
    \o acc.other_attrs

parse_attributes(variables, attr_string) ==
    IF attr_string = <<>> THEN <<>>
    ELSE AttrString(AttrTokens([other_attrs |-> <<>>, id_value |-> <<>>,
                                explicit_classes |-> <<>>, implicit_classes |-> <<>>],
                               Tokens(attr_string), variables))

-----------------------------------------------------------------------------
(* Scanning of a line in AlthtmlCompiler._process_line *)

COMMENT == <<"#","/","/">>

\* the quote_char loop over line_content[:comment_index]: the quote that is
\* open at the comment marker, "" for none. The code's test
\* line_content[i-1] != '#\\' compares one character with a two-character
\* string and is always true, so every quote character toggles.
RECURSIVE OpenQuote(_, _)
OpenQuote(prefix, quote_char) ==
    IF prefix = <<>> THEN quote_char
    ELSE IF Head(prefix) \in {QUOTE, "'"}
         THEN IF quote_char = "" THEN OpenQuote(Tail(prefix), Head(prefix))
              ELSE IF quote_char = Head(prefix) THEN OpenQuote(Tail(prefix), "")
              ELSE OpenQuote(Tail(prefix), quote_char)
    ELSE OpenQuote(Tail(prefix), quote_char)

\* "Strip inline comment FIRST"
StripAt(line_content, comment_index) ==
    IF comment_index # -1 /\ OpenQuote(Take(line_content, comment_index), "") = ""
    THEN RStrip(Take(line_content, comment_index))
    ELSE line_content

StripComment(line_content) == StripAt(line_content, Find(line_content, COMMENT))

\* a variant of the expression that also takes a ">" ending the line for
\* the self-closing marker
TagGroupsTrailing(line, lt, m) ==
    [matched |-> m > lt,
     tag_name |-> Take(line, m),
     is_self_closing |-> StartsWith(Drop(line, m), <<">">>) \/ EndsWith(line, <<">">>),
     line_remainder |-> LStrip(Drop(line, IF StartsWith(Drop(line, m), <<">">>)
                                          THEN m + 1 ELSE m))]

\* re.match(r"^(<[a-zA-Z0-9_-]+|[a-zA-Z0-9_-]+)(>?)\s*(.*)", line):
\* the groups, the first of them ending at position m of the line
TagGroups(line, lt, m) ==
    [matched |-> m > lt,
     tag_name |-> Take(line, m),
     is_self_closing |-> StartsWith(Drop(line, m), <<">">>),
     line_remainder |-> LStrip(Drop(line, IF StartsWith(Drop(line, m), <<">">>)
                                          THEN m + 1 ELSE m))]

TagFrom(line, lt) == TagGroups(line, lt, lt + PrefixLen(Drop(line, lt), IdentChars))

TagMatch(line) == TagFrom(line, IF StartsWith(line, <<"<">>) THEN 1 ELSE 0)

-----------------------------------------------------------------------------
(* Block extraction: _get_block_lines, _get_argument_blocks, _dedent_block   *)

\* line.split('#//')[0].rstrip()
ContentOf(line) == RStrip(BeforeFirst(line, COMMENT))

\* not s.strip() or s.strip().startswith('#//')
Blank(stripped) == stripped = <<>> \/ StartsWith(stripped, COMMENT)
BlankOrComment(line) == Blank(Strip(line))

\* a variant of the test of line 786 that passes over blank lines only
SkippedIfBlank(line) == Strip(line) = <<>>

\* line 786: the lines the loop of compile passes over
Skipped(line) == BlankOrComment(line)

\* The loop of _get_block_lines from index i. Each turn calls
\* _get_indent_level, which may detect the indent unit or raise.
RECURSIVE BlockLoop(_, _, _, _, _, _)

\* lines 624-641: one turn, lv being what _get_indent_level returned
BlockTurn(parent_indent_level, lines, i, block_lines, line, lv) ==
    IF lv.fatal
    THEN [block_lines |-> block_lines, indent_size |-> lv.indent_size,
          indent_type |-> lv.indent_type, fatal |-> TRUE]
    ELSE IF lv.level > parent_indent_level
    THEN BlockLoop(parent_indent_level, lines, i + 1, Append(block_lines, line),
                   lv.indent_size, lv.indent_type)
    ELSE IF ContentOf(line) # <<>>
    THEN [block_lines |-> block_lines, indent_size |-> lv.indent_size,
          indent_type |-> lv.indent_type, fatal |-> FALSE]
    ELSE BlockLoop(parent_indent_level, lines, i + 1,
                   IF block_lines # <<>> THEN Append(block_lines, line) ELSE block_lines,
                   lv.indent_size, lv.indent_type)

BlockLoop(parent_indent_level, lines, i, block_lines, indent_size, indent_type) ==
    IF ~(i < Len(lines))
    THEN [block_lines |-> block_lines, indent_size |-> indent_size,
          indent_type |-> indent_type, fatal |-> FALSE]
    ELSE BlockTurn(parent_indent_level, lines, i, block_lines, lines[i + 1],
                   get_indent_level(indent_size, indent_type, lines[i + 1]))

get_block_lines(self, parent_indent_level, lines, parent_index) ==
    BlockLoop(parent_indent_level, lines, parent_index + 1, <<>>,
              self.indent_size, self.indent_type)

\* The loop of _get_argument_blocks from index i.
RECURSIVE ArgLoop(_, _, _, _, _, _, _, _)

\* lines 686-690: what the function returns when the loop is left
ArgBlocks(arg_blocks, current_arg_block, parsing_args, indent_size, indent_type) ==
    [arg_blocks |-> IF current_arg_block # <<>> /\ parsing_args
                    THEN Append(arg_blocks, current_arg_block)
                    ELSE arg_blocks,
     indent_size |-> indent_size, indent_type |-> indent_type, fatal |-> FALSE]

\* lines 656-684: one turn, lv being what _get_indent_level returned
ArgTurn(call_indent_level, lines, i, arg_blocks, current_arg_block, parsing_args, line, lv, line_trimmed_content) ==
    IF lv.fatal
    THEN [arg_blocks |-> arg_blocks, indent_size |-> lv.indent_size,
          indent_type |-> lv.indent_type, fatal |-> TRUE]
    ELSE IF lv.level > call_indent_level
    THEN IF lv.level = call_indent_level + 1 /\ line_trimmed_content # <<>>
         THEN ArgLoop(call_indent_level, lines, i + 1,
                      IF current_arg_block # <<>> /\ parsing_args
                      THEN Append(arg_blocks, current_arg_block) ELSE arg_blocks,
                      <<line>>, TRUE, lv.indent_size, lv.indent_type)
         ELSE ArgLoop(call_indent_level, lines, i + 1, arg_blocks,
                      IF parsing_args THEN Append(current_arg_block, line)
                      ELSE current_arg_block,
                      parsing_args, lv.indent_size, lv.indent_type)
    ELSE IF parsing_args \/ line_trimmed_content # <<>>
    THEN ArgBlocks(arg_blocks, current_arg_block, parsing_args,
                   lv.indent_size, lv.indent_type)
    ELSE ArgLoop(call_indent_level, lines, i + 1, arg_blocks, current_arg_block,
                 parsing_args, lv.indent_size, lv.indent_type)

ArgLoop(call_indent_level, lines, i, arg_blocks, current_arg_block, parsing_args, indent_size, indent_type) ==
    IF ~(i < Len(lines))
    THEN ArgBlocks(arg_blocks, current_arg_block, parsing_args, indent_size, indent_type)
    ELSE ArgTurn(call_indent_level, lines, i, arg_blocks, current_arg_block, parsing_args,
                 lines[i + 1], get_indent_level(indent_size, indent_type, lines[i + 1]),
                 Strip(ContentOf(lines[i + 1])))

get_argument_blocks(self, call_indent_level, lines, call_index) ==
    ArgLoop(call_indent_level, lines, call_index + 1, <<>>, <<>>, FALSE,
            self.indent_size, self.indent_type)

\* _get_indent_chars
IndentChars(indent_size, indent_type, level) ==
    IF indent_size = 0 /\ level > 0 THEN <<>>
    ELSE IF indent_type = "tab" THEN [k \in 1..level |-> TAB]
    ELSE IF indent_type = "spaces"
         THEN [k \in 1..(level * (IF indent_size > 0 THEN indent_size ELSE 1)) |-> SP]
    ELSE <<>>

get_indent_chars(self, level) ==
    IndentChars(self.indent_size, self.indent_type, IF level < 0 THEN 0 ELSE level)

\* lines 716-729: the leading whitespace of the first line of the block that
\* is neither blank nor a comment, "" if there is none
RECURSIVE FirstRealIndent(_)
FirstRealIndent(block_lines) ==
    IF block_lines = <<>> THEN <<>>
    ELSE IF BlankOrComment(Head(block_lines)) THEN FirstRealIndent(Tail(block_lines))
    ELSE LeadingWhitespace(Head(block_lines))

\* lines 733-757: one line of the block
DedentLine(line, stripped, base_indent_chars, inferred) ==
    IF StartsWith(line, base_indent_chars) THEN Drop(line, Len(base_indent_chars))
    ELSE IF Blank(stripped) THEN line
    ELSE IF inferred THEN LStrip(line)
    ELSE line

DedentBy(block_lines, base_indent_chars, inferred) ==
    [k \in 1..Len(block_lines) |->
        DedentLine(block_lines[k], Strip(block_lines[k]), base_indent_chars, inferred)]

\* lines 712-729: the indentation to remove, inferred from the block where
\* the unit is not known yet
DedentKnown(block_lines, base_indent_level, known, first_ws) ==
    IF ~(known = <<>> /\ base_indent_level > 0) THEN DedentBy(block_lines, known, FALSE)
    ELSE IF first_ws # <<>> THEN DedentBy(block_lines, first_ws, TRUE)
    ELSE block_lines

\* _dedent_block; the warnings it prints are not modelled
dedent_block(self, block_lines, base_indent_level) ==
    IF block_lines = <<>> THEN <<>>
    ELSE DedentKnown(block_lines, base_indent_level,
                     get_indent_chars(self, base_indent_level),
                     FirstRealIndent(block_lines))

-----------------------------------------------------------------------------
(* Compiler instances and the outcome of handling one line *)

\* AlthtmlCompiler.__init__, with the locals of compile (lines, i), the
\* position of the call (pc) and what a suspended handler keeps while the
\* sub-compiler it started runs (wait). The handlers below work on an instance
\* whose variables and macros fields hold the tables themselves (see Load).
\* pushed and popped are the history of the tag stack during the call, before
\* the history of the tables: what they were when the line was dispatched.
NoWait == [var_name |-> <<>>, macro_name |-> <<>>, indent_level |-> 0, consumed |-> 0,
           arg_blocks_raw |-> <<>>, k |-> 0, args |-> <<>>]

NewCompiler ==
    [variables |-> <<>>, macros |-> <<>>, html_output |-> <<>>, tag_stack |-> <<>>,
     current_indent_level |-> 0, line_number |-> 0, indent_size |-> 0,
     indent_type |-> "", lines |-> <<>>, i |-> 0, pc |-> "new", wait |-> NoWait,
     pushed |-> 0, popped |-> <<>>,
     before |-> [kind |-> "", variables |-> <<>>, macros |-> <<>>]]

\* compile, lines 767-777: the reset at entry. The Variable Table and the
\* Macro Table are not among the fields it resets.
EnterCompile(self, text) ==
    [self EXCEPT !.html_output = <<>>, !.tag_stack = <<>>,
                 !.current_indent_level = 0, !.line_number = 0,
                 !.indent_size = 0, !.indent_type = "",
                 !.lines = SplitLinesKeep(text), !.i = 0, !.pc = "loop",
                 !.wait = NoWait, !.pushed = 0, !.popped = <<>>,
                 !.before = [kind |-> "", variables |-> <<>>, macros |-> <<>>]]

\* a handler returned normally, having consumed n lines
Consumed(self, n) == [kind |-> "consumed", self |-> self, consumed |-> n]
\* _fatal_error(message): the ValueError raised, message being the text
\* handed to _fatal_error; the two indentation messages are kept to their
\* first sentence
Fatal(self, message) == [kind |-> "fatal", self |-> self, message |-> message]
\* a handler built a fresh AlthtmlCompiler, copied the tables into it and
\* called its compile(text); pc and wait say where the handler resumes
SubCompile(self, pc, text, wait) ==
    [kind |-> "compile", self |-> [self EXCEPT !.pc = pc, !.wait = wait], text |-> text]

\* the text lines appended "indented relative to the parent tag"
ParentIndent(self) ==
    Spaces((IF self.tag_stack # <<>>
            THEN self.tag_stack[Len(self.tag_stack)].indent_level ELSE -1) + 1)

Emit(self, text) == [self EXCEPT !.html_output = @ \o text]

\* number of leading blank or comment lines of a block (first_real_line_index)
RECURSIVE FirstRealLineIndex(_)
FirstRealLineIndex(block) ==
    IF block = <<>> \/ ~BlankOrComment(Head(block)) THEN 0
    ELSE 1 + FirstRealLineIndex(Tail(block))

WithIndent(self, r) ==
    [self EXCEPT !.indent_size = r.indent_size, !.indent_type = r.indent_type]

-----------------------------------------------------------------------------
(* AlthtmlCompiler._handle_set *)

INDENT_ERROR == "Inconsistent space indentation."

SetVariable(self, var_name, value) ==
    [self EXCEPT !.variables = Put(@, [name |-> var_name, value |-> value])]

\* lines 401-402 and 408: parts = line[4:].split('=', 1), eq being the index
\* of the first '=' in line[4:]
SetParts(rest, eq) ==
    [var_name |-> Strip(UpTo(rest, eq)),
     inline |-> eq # -1,
     value |-> Strip(Drop(rest, eq + 1))]

\* lines 418-453: block assignment, the block being known to hold a real line
set_block(self, var_name, indent_level, block_lines_raw, first_real_line_index) ==
    IF Strip(block_lines_raw[first_real_line_index + 1]) = <<"r","a","w">>
    THEN Consumed(SetVariable(self, var_name,
                      Join(dedent_block(self,
                                        Drop(block_lines_raw, first_real_line_index + 1),
                                        indent_level + 1), <<>>)),
                  1 + Len(block_lines_raw))
    ELSE SubCompile(self, "set",
                    Join(dedent_block(self, block_lines_raw, indent_level + 1), <<>>),
                    [NoWait EXCEPT !.var_name = var_name,
                                   !.consumed = 1 + Len(block_lines_raw)])

\* lines 403-432, blk being what _get_block_lines returns where it is called
set_parts(self, parts, indent_level, blk) ==
    IF parts.var_name = <<>> THEN Fatal(self, "Variable name missing after 'set'.")
    ELSE IF parts.inline
    THEN IF IsQuoted(parts.value)
         THEN Consumed(SetVariable(self, parts.var_name, Unquote(parts.value)), 1)
         ELSE Fatal(self, "Inline set value for '" \o Str(parts.var_name)
                          \o "' must be enclosed in double quotes.")
    ELSE IF blk.fatal THEN Fatal(WithIndent(self, blk), INDENT_ERROR)
    ELSE IF blk.block_lines = <<>>
    THEN Consumed(SetVariable(WithIndent(self, blk), parts.var_name, <<>>), 1)
    ELSE IF FirstRealLineIndex(blk.block_lines) = Len(blk.block_lines)
    THEN Consumed(SetVariable(WithIndent(self, blk), parts.var_name, <<>>),
                  1 + Len(blk.block_lines))
    ELSE set_block(WithIndent(self, blk), parts.var_name, indent_level,
                   blk.block_lines, FirstRealLineIndex(blk.block_lines))

handle_set(self, line, indent_level, lines, current_index) ==
    set_parts(self, SetParts(Drop(line, 4), Find(Drop(line, 4), <<"=">>)), indent_level,
              get_block_lines(self, indent_level, lines, current_index))

\* line 451, after fragment_compiler.compile returned
resume_set(self, compiled) ==
    Consumed(SetVariable(self, self.wait.var_name, compiled), self.wait.consumed)

-----------------------------------------------------------------------------
(* AlthtmlCompiler._handle_macro_definition *)

\* re.findall(r'@(\d+)', s) as the set of the numbers found
RECURSIVE ArgRefs(_)
ArgRefsAt(s, at, n) ==
    IF n = 0 THEN ArgRefs(Drop(s, at + 1))
    ELSE {StrToInt(SubSeq(s, at + 2, at + 1 + n))} \cup ArgRefs(Drop(s, at + 1 + n))
ArgRefsFrom(s, at) ==
    IF at = -1 THEN {} ELSE ArgRefsAt(s, at, PrefixLen(Drop(s, at + 1), Range(Digits)))
ArgRefs(s) == ArgRefsFrom(s, Find(s, <<"@">>))

\* a variant of line 482 that takes the highest index for the count
ArgCountIsMax(is_arg_macro, refs) == IF is_arg_macro /\ refs # {} THEN Max(refs) ELSE 0

\* lines 472-482
ArgCount(is_arg_macro, refs) == IF is_arg_macro /\ refs # {} THEN Max(refs) + 1 ELSE 0

\* lines 468-486
define_macro(self, macro_name, is_arg_macro, definition_lines_raw, definition_lines) ==
    Consumed([self EXCEPT !.macros =
                 Put(@, [name |-> macro_name,
                         definition_lines |-> definition_lines,
                         is_arg_macro |-> is_arg_macro,
                         arg_count |->
                             ArgCount(is_arg_macro,
                                      UNION {ArgRefs(BeforeFirst(definition_lines[k], COMMENT)) :
                                             k \in 1..Len(definition_lines)})])],
             1 + Len(definition_lines_raw))

\* lines 459-469, blk being what _get_block_lines returns where it is called
macro_named(self, name_part, is_arg_macro, indent_level, blk) ==
    IF name_part = <<>> THEN Fatal(self, "Macro name missing after ':macro'.")
    ELSE IF is_arg_macro /\ Len(name_part) = 1
    THEN Fatal(self, "Macro name missing after ':macro !'.")
    ELSE IF blk.fatal THEN Fatal(WithIndent(self, blk), INDENT_ERROR)
    ELSE define_macro(WithIndent(self, blk),
                      IF is_arg_macro THEN Drop(name_part, 1) ELSE name_part,
                      is_arg_macro, blk.block_lines,
                      dedent_block(WithIndent(self, blk), blk.block_lines, indent_level + 1))

macro_name_part(self, name_part, indent_level, blk) ==
    macro_named(self, name_part, StartsWith(name_part, <<"!">>), indent_level, blk)

handle_macro_definition(self, line, indent_level, lines, current_index) ==
    macro_name_part(self, Strip(Drop(line, 7)), indent_level,
                    get_block_lines(self, indent_level, lines, current_index))

-----------------------------------------------------------------------------
(* AlthtmlCompiler._handle_macro_invocation and the splice of a compiled macro *)

\* lines 509-515 and 604-608
SpliceOutput(self, compiled_macro, indented_output) ==
    Emit(self, indented_output
               \o (IF compiled_macro # <<>> /\ ~EndsWith(indented_output, <<NL>>)
                   THEN <<NL>> ELSE <<>>))

IndentLines(ls, indent_level) ==
    Join([k \in 1..Len(ls) |-> IF ls[k] # <<>> THEN Spaces(indent_level) \o ls[k] ELSE <<>>],
         <<NL>>)

Splice(self, compiled_macro, indent_level) ==
    SpliceOutput(self, compiled_macro, IndentLines(SplitLines(compiled_macro), indent_level))

\* the messages of lines 497 and 527
UndefinedMessage(done, mark, macro_name) ==
    "Undefined macro " \o done \o ": '" \o mark \o Str(macro_name) \o "'."

\* the messages of lines 499 and 529
WrongFormMessage(what, mark, other, macro_name) ==
    "Cannot " \o what \o " macro '" \o mark \o Str(macro_name) \o "' using '" \o mark
    \o "'. Use '" \o other \o Str(macro_name) \o "'."

\* a variant of lines 495-506 without the test of line 498
invoke_macro_any(self, macro_name, indent_level) ==
    IF macro_name = <<>> THEN Fatal(self, "Macro name missing after '@'.")
    ELSE IF ~Has(self.macros, macro_name) THEN Fatal(self, UndefinedMessage("invoked", "@", macro_name))
    ELSE SubCompile(self, "invoke",
                    Join(Get(self.macros, macro_name).definition_lines, <<>>),
                    [NoWait EXCEPT !.indent_level = indent_level, !.consumed = 1])

\* lines 495-506
invoke_macro(self, macro_name, indent_level) ==
    IF macro_name = <<>> THEN Fatal(self, "Macro name missing after '@'.")
    ELSE IF ~Has(self.macros, macro_name) THEN Fatal(self, UndefinedMessage("invoked", "@", macro_name))
    ELSE IF Get(self.macros, macro_name).is_arg_macro
    THEN Fatal(self, WrongFormMessage("invoke argument", "@", "!", macro_name))
    ELSE SubCompile(self, "invoke",
                    Join(Get(self.macros, macro_name).definition_lines, <<>>),
                    [NoWait EXCEPT !.indent_level = indent_level, !.consumed = 1])

handle_macro_invocation(self, line, indent_level) ==
    invoke_macro(self, Strip(Drop(line, 1)), indent_level)

\* lines 508-515, after macro_compiler.compile returned
resume_invocation(self, compiled_macro) ==
    Consumed(Splice(self, compiled_macro, self.wait.indent_level), self.wait.consumed)

-----------------------------------------------------------------------------
(* AlthtmlCompiler._handle_macro_call *)

\* re.match(r"^\s*([a-zA-Z0-9_-]+|>|<[a-zA-Z0-9_-]+|@|!|:|set)", s)
StartsStructural(t) ==
    /\ t # <<>>
    /\ \/ Head(t) \in IdentChars \cup {">", "@", "!", ":"}
       \/ Head(t) = "<" /\ Len(t) > 1 /\ t[2] \in IdentChars
LooksStructural(s) == StartsStructural(LStrip(s))

\* lines 557-568 on the first real line of the block, comment stripped
IsSimpleText(first_real_line_content) ==
    \/ ~LooksStructural(first_real_line_content)
    \/ StartsWith(Strip(first_real_line_content), <<"|">>)

IsSingleRealLine(arg_block, first_real_line_index) ==
    \A j \in (first_real_line_index + 2)..Len(arg_block) : BlankOrComment(arg_block[j])

FirstRealLineContent(arg_block, first_real_line_index) ==
    ContentOf(arg_block[first_real_line_index + 1])

\* the classification of one argument block (lines 544-572)
IsTextArgument(arg_block) ==
    /\ IsSimpleText(FirstRealLineContent(arg_block, FirstRealLineIndex(arg_block)))
    /\ IsSingleRealLine(arg_block, FirstRealLineIndex(arg_block))

\* a variant of lines 575-576 that keeps the "|" of a text argument
TextKept(text) == text

\* lines 572-577
TextOf(text) == IF StartsWith(text, <<"|">>) THEN LStrip(Drop(text, 1)) ELSE text

TextArgument(self, arg_block) ==
    substitute_variables(self.variables,
        TextOf(Strip(FirstRealLineContent(arg_block, FirstRealLineIndex(arg_block)))))

\* step 3: the arguments replaced in the joined definition, highest index first
RECURSIVE ReplaceArgs(_, _, _)
ReplaceArgs(text, args, i) ==
    IF i < 0 THEN text
    ELSE ReplaceArgs(Replace(text, <<"@">> \o IntToStr(i), args[i + 1]), args, i - 1)

\* lines 589-594
SubstitutedDefinition(macro, args) ==
    ReplaceArgs(Join([n \in 1..Len(macro.definition_lines) |->
                         ContentOf(macro.definition_lines[n])], <<NL>>),
                args, macro.arg_count - 1)

RECURSIVE SumLen(_)
SumLen(blocks) == IF blocks = <<>> THEN 0 ELSE Len(Head(blocks)) + SumLen(Tail(blocks))

\* The argument loop (step 2) from block k on, then steps 3 and 4. The loop
\* stops at the first structural argument, which a sub-compiler compiles, and
\* goes on from k + 1 when that one has returned.
RECURSIVE call_arguments(_, _)

call_argument(self, w, arg_block) ==
    IF arg_block = <<>> \/ FirstRealLineIndex(arg_block) = Len(arg_block)
    THEN call_arguments(self, [w EXCEPT !.k = @ + 1, !.args = Append(@, <<>>)])
    ELSE IF IsTextArgument(arg_block)
    THEN call_arguments(self, [w EXCEPT !.k = @ + 1,
                                       !.args = Append(@, TextArgument(self, arg_block))])
    ELSE SubCompile(self, "arg",
                    Join(dedent_block(self, arg_block, w.indent_level + 1), <<>>), w)

call_arguments(self, w) ==
    IF w.k > Len(w.arg_blocks_raw)
    THEN SubCompile(self, "call",
                    SubstitutedDefinition(Get(self.macros, w.macro_name), w.args), w)
    ELSE call_argument(self, w, w.arg_blocks_raw[w.k])

\* the message of line 535
ArgCountMessage(macro_name, arg_count, received) ==
    "Macro '!" \o Str(macro_name) \o "' expected " \o Str(IntToStr(arg_count))
    \o " arguments, but received " \o Str(IntToStr(received)) \o "."

\* lines 521-535, blk being what _get_argument_blocks returns where it is called
call_macro(self, macro_name, indent_level, blk) ==
    IF macro_name = <<>> THEN Fatal(self, "Macro name missing after '!'.")
    ELSE IF ~Has(self.macros, macro_name) THEN Fatal(self, UndefinedMessage("called", "!", macro_name))
    ELSE IF ~Get(self.macros, macro_name).is_arg_macro
    THEN Fatal(self, WrongFormMessage("call simple", "!", "@", macro_name))
    ELSE IF blk.fatal THEN Fatal(WithIndent(self, blk), INDENT_ERROR)
    ELSE IF Len(blk.arg_blocks) # Get(self.macros, macro_name).arg_count
    THEN Fatal(WithIndent(self, blk),
               ArgCountMessage(macro_name, Get(self.macros, macro_name).arg_count,
                               Len(blk.arg_blocks)))
    ELSE call_arguments(WithIndent(self, blk),
             [NoWait EXCEPT !.macro_name = macro_name, !.indent_level = indent_level,
                            !.arg_blocks_raw = blk.arg_blocks, !.k = 1,
                            !.consumed = 1 + SumLen(blk.arg_blocks)])

handle_macro_call(self, line, indent_level, lines, current_index) ==
    call_macro(self, Strip(Drop(line, 1)), indent_level,
               get_argument_blocks(self, indent_level, lines, current_index))

\* line 585, after arg_compiler.compile returned
resume_argument(self, compiled) ==
    call_arguments(self, [self.wait EXCEPT !.k = @ + 1, !.args = Append(@, compiled)])

\* lines 603-615, after macro_compiler.compile returned
resume_call(self, compiled_macro) ==
    Consumed(Splice(self, compiled_macro, self.wait.indent_level), self.wait.consumed)

-----------------------------------------------------------------------------
(* AlthtmlCompiler._process_line *)

RAW   == <<"r","a","w">>
RAWAT == <<"r","a","w","@">>

\* the branch of _process_line a comment-stripped line takes, in the code's order
LineKind(line) ==
    IF line = <<>> THEN "empty"
    ELSE IF StartsWith(line, <<"s","e","t",SP>>) THEN "set"
    ELSE IF StartsWith(line, <<":","m","a","c","r","o",SP>>) THEN "macro"
    ELSE IF StartsWith(line, <<"@">>) THEN "invoke"
    ELSE IF StartsWith(line, <<"!">>) THEN "call"
    ELSE IF StartsWith(line, <<"|">>) THEN "text"
    ELSE IF line = RAW THEN "raw_block"
    ELSE IF StartsWith(line, RAW \o <<SP>>) THEN "raw_line"
    ELSE IF line = RAWAT THEN "rawat_block"
    ELSE IF StartsWith(line, RAWAT \o <<SP>>) THEN "rawat_line"
    ELSE IF TagMatch(line).matched THEN "tag"
    ELSE "implicit"

\* a variant without the closing of a sibling at the same level (lines 225-227)
SiblingKeptOpen(self, indent_level) ==
    [self EXCEPT !.current_indent_level = indent_level]

\* lines 221-230: tags at or below the level of the line are closed
CloseSibling(self, indent_level) ==
    IF /\ indent_level = self.current_indent_level
       /\ self.tag_stack # <<>>
       /\ self.tag_stack[Len(self.tag_stack)].indent_level = indent_level
    THEN [close_tags(self, indent_level) EXCEPT !.current_indent_level = indent_level]
    ELSE [self EXCEPT !.current_indent_level = indent_level]

\* a variant without the closing on a dedent (lines 221-223)
CloseNothing(self, indent_level) == self

CloseDedent(self, indent_level) ==
    IF indent_level < self.current_indent_level THEN close_tags(self, indent_level) ELSE self

\* "Handle Indentation", lines 217-230, once the level is known to be legal
EnterLine(self, indent_level) == CloseSibling(CloseDedent(self, indent_level), indent_level)

\* the lines of a block, each behind the indentation of the parent tag
Indented(self, block) ==
    Join([k \in 1..Len(block) |-> ParentIndent(self) \o block[k]], <<>>)

\* a variant of lines 268-278 that substitutes variables in the content
raw_lines_substituted(self, indent_level, blk) ==
    IF blk.fatal THEN Fatal(WithIndent(self, blk), INDENT_ERROR)
    ELSE Consumed(Emit(WithIndent(self, blk),
                       Indented(self, SplitLinesKeep(substitute_variables(self.variables,
                                    Join(dedent_block(WithIndent(self, blk), blk.block_lines,
                                                      indent_level + 1), <<>>))))),
                  1 + Len(blk.block_lines))

\* lines 268-278, blk being what _get_block_lines returned
raw_lines(self, indent_level, blk) ==
    IF blk.fatal THEN Fatal(WithIndent(self, blk), INDENT_ERROR)
    ELSE Consumed(Emit(WithIndent(self, blk),
                       Indented(self, dedent_block(WithIndent(self, blk), blk.block_lines,
                                                   indent_level + 1))),
                  1 + Len(blk.block_lines))

raw_block(self, indent_level, lines, current_index) ==
    raw_lines(self, indent_level, get_block_lines(self, indent_level, lines, current_index))

\* lines 300-309: the substituted text is appended line by line, and a final
\* newline where the output does not end with one
rawat_output(self, substituted_text, consumed) ==
    Consumed(Emit(self, Indented(self, SplitLinesKeep(substituted_text))
                        \o (IF /\ substituted_text # <<>>
                               /\ ~EndsWith(self.html_output
                                            \o Indented(self, SplitLinesKeep(substituted_text)),
                                            <<NL>>)
                            THEN <<NL>> ELSE <<>>)),
             consumed)

\* lines 292-299, blk being what _get_block_lines returned
rawat_lines(self, indent_level, blk) ==
    IF blk.fatal THEN Fatal(WithIndent(self, blk), INDENT_ERROR)
    ELSE rawat_output(WithIndent(self, blk),
                      substitute_variables(self.variables,
                          Join(dedent_block(WithIndent(self, blk), blk.block_lines,
                                            indent_level + 1), <<>>)),
                      1 + Len(blk.block_lines))

rawat_block(self, indent_level, lines, current_index) ==
    rawat_lines(self, indent_level, get_block_lines(self, indent_level, lines, current_index))

\* a variant of lines 357-368 without the test "if not is_self_closing": the
\* entry is pushed and the inline text emitted for every tag
emit_tag_pushed(self, tag_match, indent_level, attributes, text_content) ==
    Consumed([self EXCEPT
                 !.html_output =
                     @ \o Spaces(indent_level) \o <<"<">> \o tag_match.tag_name
                       \o attributes
                       \o (IF tag_match.is_self_closing THEN <<SP, "/">> ELSE <<>>)
                       \o <<">", NL>>
                       \o (IF text_content # <<>>
                           THEN Spaces(indent_level) \o <<SP, SP>>
                                \o substitute_variables(self.variables, text_content)
                                \o <<NL>>
                           ELSE <<>>),
                 !.tag_stack = Append(@, [tag_name |-> tag_match.tag_name,
                                          indent_level |-> indent_level,
                                          self_closing |-> tag_match.is_self_closing,
                                          serial |-> self.pushed + 1]),
                 !.pushed = @ + 1], 1)

\* lines 357-374: the tag is emitted and, unless self-closing, pushed; inline
\* text follows a tag that is not self-closing
emit_tag(self, tag_match, indent_level, attributes, text_content) ==
    IF tag_match.is_self_closing
    THEN Consumed(Emit(self, Spaces(indent_level) \o <<"<">> \o tag_match.tag_name
                             \o attributes \o <<SP, "/", ">", NL>>), 1)
    ELSE Consumed([self EXCEPT
                      !.html_output =
                          @ \o Spaces(indent_level) \o <<"<">> \o tag_match.tag_name
                            \o attributes \o <<">", NL>>
                            \o (IF text_content # <<>>
                                THEN Spaces(indent_level) \o <<SP, SP>>
                                     \o substitute_variables(self.variables, text_content)
                                     \o <<NL>>
                                ELSE <<>>),
                      !.tag_stack = Append(@, [tag_name |-> tag_match.tag_name,
                                               indent_level |-> indent_level,
                                               self_closing |-> FALSE,
                                               serial |-> self.pushed + 1]),
                      !.pushed = @ + 1], 1)

\* lines 344-354: attributes before the first "|" of the remainder, text after it
tag_remainder(self, tag_match, indent_level, line_remainder, pipe_in_remainder_index) ==
    emit_tag(self, tag_match, indent_level,
             parse_attributes(self.variables,
                              Strip(UpTo(line_remainder, pipe_in_remainder_index))),
             IF pipe_in_remainder_index > -1
             THEN LStrip(Drop(line_remainder, pipe_in_remainder_index + 1))
             ELSE <<>>)

tag_matched(self, tag_match, indent_level) ==
    tag_remainder(self, tag_match, indent_level, tag_match.line_remainder,
                  Find(tag_match.line_remainder, <<"|">>))

\* lines 325-374: a line on which the tag expression matched
tag_line(self, line, indent_level) == tag_matched(self, TagMatch(line), indent_level)

\* a variant of lines 380-385 that collapses the whitespace of quoted text too
ProcessedTextCollapsed(text_content) ==
    IF IsQuoted(text_content)
    THEN Join(SplitWords(Drop(Take(text_content, Len(text_content) - 1), 1)), <<SP>>)
    ELSE Join(SplitWords(text_content), <<SP>>)

\* a variant of lines 380-385 that keeps the whitespace of unquoted text
ProcessedTextKept(text_content) ==
    IF IsQuoted(text_content)
    THEN Drop(Take(text_content, Len(text_content) - 1), 1)
    ELSE text_content

\* lines 376-394
ProcessedText(text_content) ==
    IF IsQuoted(text_content)
    THEN Drop(Take(text_content, Len(text_content) - 1), 1)
    ELSE Join(SplitWords(text_content), <<SP>>)

implicit_text(self, text_content) ==
    Consumed(Emit(self, ParentIndent(self)
                        \o substitute_variables(self.variables, ProcessedText(text_content))
                        \o <<NL>>), 1)

\* text emitted by the one-line forms: "|", "raw " and "raw@ "
text_line(self, text) == Consumed(Emit(self, ParentIndent(self) \o text \o <<NL>>), 1)

\* lines 258-265, 282-288 and 313-320
one_line_text(self, kind, line) ==
    IF kind = "text"
    THEN text_line(self, substitute_variables(self.variables, LStrip(Drop(line, 1))))
    ELSE IF kind = "raw_line" THEN text_line(self, Drop(line, 4))
    ELSE text_line(self, substitute_variables(self.variables, Drop(line, 5)))

-----------------------------------------------------------------------------
(* The sources handed to compile *)

\* a tag, a child, a sibling of the child
\*   a / \tb / \tc
SrcSiblings ==
    <<"a",NL>>
    \o <<TAB,"b",NL>>
    \o <<TAB,"c",NL>>

\* three levels, then back to level 0
\*   a / \tb / \t\tc | t / d
SrcDedent ==
    <<"a",NL>>
    \o <<TAB,"b",NL>>
    \o <<TAB,TAB,"c",SP,"|",SP,"t",NL>>
    \o <<"d",NL>>

\* level 0 directly followed by level 2
\*   a / \t\tb
SrcJump ==
    <<"a",NL>>
    \o <<TAB,TAB,"b",NL>>

\* a jump from level 1 to level 3 with tags open
\*   a / \tb | t / \t\t\tc / d
SrcJumpDeep ==
    <<"a",NL>>
    \o <<TAB,"b",SP,"|",SP,"t",NL>>
    \o <<TAB,TAB,TAB,"c",NL>>
    \o <<"d",NL>>

\* the jump is in the body of a macro invoked under a tag
\*   p / :macro m / \ta / \t\t\tb / @m / q
SrcJumpInMacro ==
    <<"p",NL>>
    \o <<":","m","a","c","r","o",SP,"m",NL>>
    \o <<TAB,"a",NL>>
    \o <<TAB,TAB,TAB,"b",NL>>
    \o <<"@","m",NL>>
    \o <<"q",NL>>

\* space indentation, unit 2
\*   a /   b /     c
SrcSpaces ==
    <<"a",NL>>
    \o <<SP,SP,"b",NL>>
    \o <<SP,SP,SP,SP,"c",NL>>

\* space indentation that is no multiple of the unit
\*   a /   b /    c
SrcSpacesOdd ==
    <<"a",NL>>
    \o <<SP,SP,"b",NL>>
    \o <<SP,SP,SP,"c",NL>>

\* two bare words under a tag
\*   p / \thello   world
SrcHelloWorld ==
    <<"p",NL>>
    \o <<TAB,"h","e","l","l","o",SP,SP,SP,"w","o","r","l","d",NL>>

\* implicit text under a tag: no tag token leads the line
\*   p / \t.hello   world
SrcImplicit ==
    <<"p",NL>>
    \o <<TAB,".","h","e","l","l","o",SP,SP,SP,"w","o","r","l","d",NL>>

\* implicit text with a tab run and a variable
\*   set w = "v  v" / p / \t(a \t b)  w
SrcImplicitTabs ==
    <<"s","e","t",SP,"w",SP,"=",SP,QUOTE,"v",SP,SP,"v",QUOTE,NL>>
    \o <<"p",NL>>
    \o <<TAB,"(","a",SP,TAB,SP,"b",")",SP,SP,"w",NL>>

\* self-closing tags with attributes and an inline text suffix
\*   p / \tbr> | text / \thr> wide #r k="v" / \tq
SrcSelfClosing ==
    <<"p",NL>>
    \o <<TAB,"b","r",">",SP,"|",SP,"t","e","x","t",NL>>
    \o <<TAB,"h","r",">",SP,"w","i","d","e",SP,"#","r",SP,"k","=",QUOTE,"v",QUOTE,NL>>
    \o <<TAB,"q",NL>>

\* the marker at the end of the line
\*   img src="x.png">
SrcImgEnd ==
    <<"i","m","g",SP,"s","r","c","=",QUOTE,"x",".","p","n","g",QUOTE,">",NL>>

\* the marker right after the tag token
\*   img> src="x.png"
SrcImgMarker ==
    <<"i","m","g",">",SP,"s","r","c","=",QUOTE,"x",".","p","n","g",QUOTE,NL>>

\* the shorter name is set first
\*   set a = "X" / set ab = "Y" / | ab
SrcSubstShortFirst ==
    <<"s","e","t",SP,"a",SP,"=",SP,QUOTE,"X",QUOTE,NL>>
    \o <<"s","e","t",SP,"a","b",SP,"=",SP,QUOTE,"Y",QUOTE,NL>>
    \o <<"|",SP,"a","b",NL>>

\* the longer name is set first
\*   set ab = "Y" / set a = "X" / | ab
SrcSubstLongFirst ==
    <<"s","e","t",SP,"a","b",SP,"=",SP,QUOTE,"Y",QUOTE,NL>>
    \o <<"s","e","t",SP,"a",SP,"=",SP,QUOTE,"X",QUOTE,NL>>
    \o <<"|",SP,"a","b",NL>>

\* a value that holds another name, inside a word
\*   set a = "X" / set ab = "a" / p | cabc
SrcSubstChain ==
    <<"s","e","t",SP,"a",SP,"=",SP,QUOTE,"X",QUOTE,NL>>
    \o <<"s","e","t",SP,"a","b",SP,"=",SP,QUOTE,"a",QUOTE,NL>>
    \o <<"p",SP,"|",SP,"c","a","b","c",NL>>

\* a variable used before the line that sets it
\*   | a / set a = "X"
SrcUseThenSet ==
    <<"|",SP,"a",NL>>
    \o <<"s","e","t",SP,"a",SP,"=",SP,QUOTE,"X",QUOTE,NL>>

\* a text line that a later set rewrites
\*   p | m / :macro m / \tq / set m = "M"
SrcUseThenDefine ==
    <<"p",SP,"|",SP,"m",NL>>
    \o <<":","m","a","c","r","o",SP,"m",NL>>
    \o <<TAB,"q",NL>>
    \o <<"s","e","t",SP,"m",SP,"=",SP,QUOTE,"M",QUOTE,NL>>

\* a macro body that sets a variable and defines a macro
\*   set a = "X" / :macro m / \tset a = "Z" / \t:macro n / \t\tq / \tp | a / @m / | a
SrcInvokeDefines ==
    <<"s","e","t",SP,"a",SP,"=",SP,QUOTE,"X",QUOTE,NL>>
    \o <<":","m","a","c","r","o",SP,"m",NL>>
    \o <<TAB,"s","e","t",SP,"a",SP,"=",SP,QUOTE,"Z",QUOTE,NL>>
    \o <<TAB,":","m","a","c","r","o",SP,"n",NL>>
    \o <<TAB,TAB,"q",NL>>
    \o <<TAB,"p",SP,"|",SP,"a",NL>>
    \o <<"@","m",NL>>
    \o <<"|",SP,"a",NL>>

\* a structural argument that sets a variable and defines a macro
\*   set a = "X" / :macro !g / \tdiv / \t\t@0 @1 / !g / \tp / \t\tset a = "Z" / \t\t:macro n / \t\t| a / \t| a / | a
SrcCallDefines ==
    <<"s","e","t",SP,"a",SP,"=",SP,QUOTE,"X",QUOTE,NL>>
    \o <<":","m","a","c","r","o",SP,"!","g",NL>>
    \o <<TAB,"d","i","v",NL>>
    \o <<TAB,TAB,"@","0",SP,"@","1",NL>>
    \o <<"!","g",NL>>
    \o <<TAB,"p",NL>>
    \o <<TAB,TAB,"s","e","t",SP,"a",SP,"=",SP,QUOTE,"Z",QUOTE,NL>>
    \o <<TAB,TAB,":","m","a","c","r","o",SP,"n",NL>>
    \o <<TAB,TAB,"|",SP,"a",NL>>
    \o <<TAB,"|",SP,"a",NL>>
    \o <<"|",SP,"a",NL>>

\* a set block compiled as a fragment that sets variables
\*   set a = "X" / set v / \tset a = "Z" / \tset b = "B" / \tp | a / | v a b
SrcSetBlock ==
    <<"s","e","t",SP,"a",SP,"=",SP,QUOTE,"X",QUOTE,NL>>
    \o <<"s","e","t",SP,"v",NL>>
    \o <<TAB,"s","e","t",SP,"a",SP,"=",SP,QUOTE,"Z",QUOTE,NL>>
    \o <<TAB,"s","e","t",SP,"b",SP,"=",SP,QUOTE,"B",QUOTE,NL>>
    \o <<TAB,"p",SP,"|",SP,"a",NL>>
    \o <<"|",SP,"v",SP,"a",SP,"b",NL>>

\* a raw set block, raw and raw@ blocks and lines
\*   set a = "X" / set v / \traw / \ta b / raw / \ta v / raw@ / \ta v / raw a / raw@ a
SrcSetRaw ==
    <<"s","e","t",SP,"a",SP,"=",SP,QUOTE,"X",QUOTE,NL>>
    \o <<"s","e","t",SP,"v",NL>>
    \o <<TAB,"r","a","w",NL>>
    \o <<TAB,"a",SP,"b",NL>>
    \o <<"r","a","w",NL>>
    \o <<TAB,"a",SP,"v",NL>>
    \o <<"r","a","w","@",NL>>
    \o <<TAB,"a",SP,"v",NL>>
    \o <<"r","a","w",SP,"a",NL>>
    \o <<"r","a","w","@",SP,"a",NL>>

\* a macro that invokes a macro
\*   :macro n / \tq | t / :macro m / \tp / \t\t@n / @m
SrcNestedMacros ==
    <<":","m","a","c","r","o",SP,"n",NL>>
    \o <<TAB,"q",SP,"|",SP,"t",NL>>
    \o <<":","m","a","c","r","o",SP,"m",NL>>
    \o <<TAB,"p",NL>>
    \o <<TAB,TAB,"@","n",NL>>
    \o <<"@","m",NL>>

\* a macro that invokes itself
\*   :macro m / \tp / \t\t@m / @m
SrcRecursive ==
    <<":","m","a","c","r","o",SP,"m",NL>>
    \o <<TAB,"p",NL>>
    \o <<TAB,TAB,"@","m",NL>>
    \o <<"@","m",NL>>

\* comment-only lines, a trailing comment, a quoted marker
\*   a #// one / #// two /  / \tb | "x #// y" / \t#// three / c
SrcComments ==
    <<"a",SP,"#","/","/",SP,"o","n","e",NL>>
    \o <<"#","/","/",SP,"t","w","o",NL>>
    \o <<NL>>
    \o <<TAB,"b",SP,"|",SP,QUOTE,"x",SP,"#","/","/",SP,"y",QUOTE,NL>>
    \o <<TAB,"#","/","/",SP,"t","h","r","e","e",NL>>
    \o <<"c",NL>>

\* a simple macro called with !
\*   :macro m / \tp / !m
SrcWrongForm ==
    <<":","m","a","c","r","o",SP,"m",NL>>
    \o <<TAB,"p",NL>>
    \o <<"!","m",NL>>

\* an inline set without quotes
\*   p / set a = X
SrcUnquoted ==
    <<"p",NL>>
    \o <<"s","e","t",SP,"a",SP,"=",SP,"X",NL>>

\* an argument macro called with one text argument
\*   :macro !greet / \tp | Hello @0! / !greet / \t| World
SrcGreet ==
    <<":","m","a","c","r","o",SP,"!","g","r","e","e","t",NL>>
    \o <<TAB,"p",SP,"|",SP,"H","e","l","l","o",SP,"@","0","!",NL>>
    \o <<"!","g","r","e","e","t",NL>>
    \o <<TAB,"|",SP,"W","o","r","l","d",NL>>

\* greet called without an argument block
\*   :macro !g / \tp | H @0! / !g
SrcArgsNone ==
    <<":","m","a","c","r","o",SP,"!","g",NL>>
    \o <<TAB,"p",SP,"|",SP,"H",SP,"@","0","!",NL>>
    \o <<"!","g",NL>>

\* two structural argument blocks for one placeholder, with output before the call
\*   p / :macro !g / \tq | @0 / !g / \ta / \tb / r
SrcArgsTwo ==
    <<"p",NL>>
    \o <<":","m","a","c","r","o",SP,"!","g",NL>>
    \o <<TAB,"q",SP,"|",SP,"@","0",NL>>
    \o <<"!","g",NL>>
    \o <<TAB,"a",NL>>
    \o <<TAB,"b",NL>>
    \o <<"r",NL>>

\* a body without placeholder, called with and without a block
\*   :macro !g / \tp | H / !g / !g / \t| W
SrcArgsZero ==
    <<":","m","a","c","r","o",SP,"!","g",NL>>
    \o <<TAB,"p",SP,"|",SP,"H",NL>>
    \o <<"!","g",NL>>
    \o <<"!","g",NL>>
    \o <<TAB,"|",SP,"W",NL>>

\* a body whose only placeholder is @1, called with one block
\*   :macro !g / \tp | @1 / !g / \t| W
SrcArgsHigh ==
    <<":","m","a","c","r","o",SP,"!","g",NL>>
    \o <<TAB,"p",SP,"|",SP,"@","1",NL>>
    \o <<"!","g",NL>>
    \o <<TAB,"|",SP,"W",NL>>

\* the same body called with two blocks, the first of them structural
\*   :macro !g / \tp | @1 / !g / \tq / \t| V
SrcArgsHighBoth ==
    <<":","m","a","c","r","o",SP,"!","g",NL>>
    \o <<TAB,"p",SP,"|",SP,"@","1",NL>>
    \o <<"!","g",NL>>
    \o <<TAB,"q",NL>>
    \o <<TAB,"|",SP,"V",NL>>

\* a raw and a raw@ block with the same content, which names a variable
\*   set a = "X" / p / \traw / \t\ta b a / \t\t\tca / q / \traw@ / \t\ta b a / \t\t\tca
SrcRawNamed ==
    <<"s","e","t",SP,"a",SP,"=",SP,QUOTE,"X",QUOTE,NL>>
    \o <<"p",NL>>
    \o <<TAB,"r","a","w",NL>>
    \o <<TAB,TAB,"a",SP,"b",SP,"a",NL>>
    \o <<TAB,TAB,TAB,"c","a",NL>>
    \o <<"q",NL>>
    \o <<TAB,"r","a","w","@",NL>>
    \o <<TAB,TAB,"a",SP,"b",SP,"a",NL>>
    \o <<TAB,TAB,TAB,"c","a",NL>>

\* an argument macro invoked with @
\*   :macro !g / \tp | @0 / @g
SrcWrongInvoke ==
    <<":","m","a","c","r","o",SP,"!","g",NL>>
    \o <<TAB,"p",SP,"|",SP,"@","0",NL>>
    \o <<"@","g",NL>>

\* macros that no line defined, invoked and called under an open tag
\*   p / \t@m / q        p / \t!m / q
SrcUndefinedInvoke ==
    <<"p",NL>>
    \o <<TAB,"@","m",NL>>
    \o <<"q",NL>>
SrcUndefinedCall ==
    <<"p",NL>>
    \o <<TAB,"!","m",NL>>
    \o <<"q",NL>>

\* directive lines without a name
\*   p / \tset / q      p / \t:macro / q      p / set = "x"      p / :macro !
\*   p / \t@            p / !
SrcSetAlone ==
    <<"p",NL>>
    \o <<TAB,"s","e","t",NL>>
    \o <<"q",NL>>
SrcMacroAlone ==
    <<"p",NL>>
    \o <<TAB,":","m","a","c","r","o",NL>>
    \o <<"q",NL>>
SrcSetNoName ==
    <<"p",NL>>
    \o <<"s","e","t",SP,"=",SP,QUOTE,"x",QUOTE,NL>>
SrcMacroBang ==
    <<"p",NL>>
    \o <<":","m","a","c","r","o",SP,"!",NL>>
SrcAtAlone ==
    <<"p",NL>>
    \o <<TAB,"@",NL>>
SrcBangAlone ==
    <<"p",NL>>
    \o <<"!",NL>>

\* a set block whose fragment fails
\*   set a = "X" / set v / \tp / \t\t\tq / | a v
SrcSetFails ==
    <<"s","e","t",SP,"a",SP,"=",SP,QUOTE,"X",QUOTE,NL>>
    \o <<"s","e","t",SP,"v",NL>>
    \o <<TAB,"p",NL>>
    \o <<TAB,TAB,TAB,"q",NL>>
    \o <<"|",SP,"a",SP,"v",NL>>

\* a structural argument that fails
\*   :macro !g / \tp | @0 / !g / \tq / \t\t\tr / s
SrcArgFails ==
    <<":","m","a","c","r","o",SP,"!","g",NL>>
    \o <<TAB,"p",SP,"|",SP,"@","0",NL>>
    \o <<"!","g",NL>>
    \o <<TAB,"q",NL>>
    \o <<TAB,TAB,TAB,"r",NL>>
    \o <<"s",NL>>

\* a macro that fails in a macro it invokes
\*   :macro n / \t@x / :macro m / \tp / \t\t@n / q / @m / r
SrcNestedFails ==
    <<":","m","a","c","r","o",SP,"n",NL>>
    \o <<TAB,"@","x",NL>>
    \o <<":","m","a","c","r","o",SP,"m",NL>>
    \o <<TAB,"p",NL>>
    \o <<TAB,TAB,"@","n",NL>>
    \o <<"q",NL>>
    \o <<"@","m",NL>>
    \o <<"r",NL>>

\* quoted implicit text, at level 0 and under two tags with a variable
\*   "a   b"        set a = "X" / p / \tq / \t\t"a   b a" #// c
SrcQuoted ==
    <<QUOTE,"a",SP,SP,SP,"b",QUOTE,NL>>
SrcQuotedNested ==
    <<"s","e","t",SP,"a",SP,"=",SP,QUOTE,"X",QUOTE,NL>>
    \o <<"p",NL>>
    \o <<TAB,"q",NL>>
    \o <<TAB,TAB,QUOTE,"a",SP,SP,SP,"b",SP,"a",QUOTE,SP,"#","/","/",SP,"c",NL>>

\* a document that starts with the document-type line
\*   !DOCTYPE html / html / \tbody
SrcDoctype ==
    <<"!","D","O","C","T","Y","P","E",SP,"h","t","m","l",NL>>
    \o <<"h","t","m","l",NL>>
    \o <<TAB,"b","o","d","y",NL>>

\* a comment at level 0 between two tags of level 2
\*   a / \tb / \t\tc / #// d / \t\te
SrcCommentDedent ==
    <<"a",NL>>
    \o <<TAB,"b",NL>>
    \o <<TAB,TAB,"c",NL>>
    \o <<"#","/","/",SP,"d",NL>>
    \o <<TAB,TAB,"e",NL>>

\* a blank line between raw and its block
\*   raw / (blank) / \tx / \ty
SrcRawBlankFirst ==
    <<"r","a","w",NL>>
    \o <<NL>>
    \o <<TAB,"x",NL>>
    \o <<TAB,"y",NL>>

\* a comment line between a set directive and its block
\*   set v / #// c / \tp / \tq / | v
SrcSetCommentFirst ==
    <<"s","e","t",SP,"v",NL>>
    \o <<"#","/","/",SP,"c",NL>>
    \o <<TAB,"p",NL>>
    \o <<TAB,"q",NL>>
    \o <<"|",SP,"v",NL>>

\* a comment line between a call and its argument block
\*   :macro !g / \tp | @0 / !g / \t#// c / \t| x / q
SrcCallCommentFirst ==
    <<":","m","a","c","r","o",SP,"!","g",NL>>
    \o <<TAB,"p",SP,"|",SP,"@","0",NL>>
    \o <<"!","g",NL>>
    \o <<TAB,"#","/","/",SP,"c",NL>>
    \o <<TAB,"|",SP,"x",NL>>
    \o <<"q",NL>>

\* four levels, then a sibling of the second
\*   a / \tb / \t\tc / \t\t\td / \te
SrcDedentTwo ==
    <<"a",NL>>
    \o <<TAB,"b",NL>>
    \o <<TAB,TAB,"c",NL>>
    \o <<TAB,TAB,TAB,"d",NL>>
    \o <<TAB,"e",NL>>

Curated == {SrcSiblings, SrcDedent, SrcJump, SrcJumpDeep,
            SrcJumpInMacro, SrcSpaces, SrcSpacesOdd, SrcHelloWorld,
            SrcImplicit, SrcImplicitTabs, SrcSelfClosing, SrcImgEnd,
            SrcImgMarker, SrcSubstShortFirst, SrcSubstLongFirst, SrcSubstChain,
            SrcUseThenSet, SrcUseThenDefine, SrcInvokeDefines, SrcCallDefines,
            SrcSetBlock, SrcSetRaw, SrcNestedMacros, SrcRecursive,
            SrcComments, SrcWrongForm, SrcUnquoted,
            SrcGreet,
            SrcArgsNone, SrcArgsTwo, SrcArgsZero, SrcArgsHigh, SrcArgsHighBoth,
            SrcRawNamed,
            SrcWrongInvoke, SrcUndefinedInvoke, SrcUndefinedCall,
            SrcSetAlone, SrcMacroAlone, SrcSetNoName, SrcMacroBang, SrcAtAlone, SrcBangAlone,
            SrcSetFails, SrcArgFails, SrcNestedFails,
            SrcQuoted, SrcQuotedNested,
            SrcDoctype,
            SrcCommentDedent,
            SrcRawBlankFirst, SrcSetCommentFirst, SrcCallCommentFirst,
            SrcDedentTwo}

\* The sources of up to MaxLines lines, each one of LineShapes at one of Indents
LineShapes == {<<"p">>,
               <<"b","r",">",SP,"|",SP,"t">>,
               <<".","t",SP,SP,"u">>}
Indents == {<<>>, <<TAB>>, <<TAB,TAB>>}
Lines == {ind \o shape \o <<NL>> : ind \in Indents, shape \in LineShapes}

RECURSIVE SourcesOf(_)
SourcesOf(n) ==
    IF n = 0 THEN {<<>>}
    ELSE SourcesOf(n - 1) \cup {text \o line : text \in SourcesOf(n - 1), line \in Lines}

Generated == SourcesOf(MaxLines) \ {<<>>}

Sources == Curated \cup Generated

\* what a later call on the same instance compiles: the same source again,
\* or a source that uses what an earlier one may have defined
SrcUse == <<"@","m",NL>> \o <<"|",SP,"a",NL>>
Later(text) == {text, SrcUse}

-----------------------------------------------------------------------------
(* src/althtml/watcher.py *)

MaxHeaders == 2    \* header files of a configuration
MaxSources == 2    \* entries of write_pairs
MaxPasses == 2     \* recompilation passes of one handler

\* a header that sets a variable and defines a macro
\*   set a = "X" / :macro m / \tq | a
HdrDefs ==
    <<"s","e","t",SP,"a",SP,"=",SP,QUOTE,"X",QUOTE,NL>>
    \o <<":","m","a","c","r","o",SP,"m",NL>>
    \o <<TAB,"q",SP,"|",SP,"a",NL>>

\* a page with a comment, a set block, a tag and implicit text
\*   #// c / set v / \tp | a / div / \tsome  text v
SrcPage ==
    <<"#","/","/",SP,"c",NL>>
    \o <<"s","e","t",SP,"v",NL>>
    \o <<TAB,"p",SP,"|",SP,"a",NL>>
    \o <<"d","i","v",NL>>
    \o <<TAB,"s","o","m","e",SP,SP,"t","e","x","t",SP,"v",NL>>

\* what the header files and the source files of a configuration may hold
HeaderTexts == {HdrDefs, SrcCallDefines, SrcJump}
SourceTexts == {SrcUse, SrcSetRaw, SrcPage}

\* the lists of up to n different elements of S
RECURSIVE ListsOf(_, _)
ListsOf(S, n) ==
    IF n = 0 THEN {<<>>}
    ELSE ListsOf(S, n - 1)
         \cup {Append(l, x) : l \in {m \in ListsOf(S, n - 1) : Len(m) = n - 1},
                              x \in S}
Different(l) == \A j, k \in 1..Len(l) : j # k => l[j] # l[k]

HeaderLists == {l \in ListsOf(HeaderTexts, MaxHeaders) : Different(l)}
SourceLists == {l \in ListsOf(SourceTexts, MaxSources) : Different(l) /\ l # <<>>}

\* the paths of the k-th header, the k-th source and the file written for it
HeaderPath(k) == <<"header", k>>
SourcePath(k) == <<"source", k>>
DestinationPath(k) == <<"destination", k>>

\* the files before the first pass: headers and sources with their contents
Files(headers, sources) ==
    [p \in {HeaderPath(k) : k \in 1..Len(headers)}
           \cup {SourcePath(k) : k \in 1..Len(sources)} |->
        IF p[1] = "header" THEN headers[p[2]] ELSE sources[p[2]]]

\* open(v, "w+"): the file is created or emptied
Open(files, v) == [p \in DOMAIN files \cup {v} |-> IF p = v THEN <<>> ELSE files[p]]

\* f.write(text) on the file just opened, and its close
Write(files, v, text) == [files EXCEPT ![v] = text]

NoJob == [kind |-> "none", path |-> <<>>, dst |-> <<>>]

\* ChangeHandler.__init__, lines 15-19; self.compiler is the instance frames[1].
\* header_files is a set: the list is the order in which a pass iterates it.
\* The handler is one made with the parameters of line 15; the call of line 55
\* in run_watcher passes a keyword watch_files that line 15 does not take.
ChangeHandler(write_pairs, header_files) ==
    [write_pairs |-> write_pairs,
     header_files |-> header_files,
     pc |-> "idle",          \* "idle" | "pass" | "aborted"
     jobs |-> <<>>,          \* the compile calls the pass has yet to make
     waiting |-> NoJob,      \* the file whose compile call is running
     passes |-> 0,           \* passes started
     log |-> <<>>]           \* what the pass has done so far

\* a variant of lines 8-12 with the two loops in the other order
trigger_recompile_sources_first(write_pairs, header_files) ==
    [k \in 1..Len(write_pairs) |->
        [kind |-> "source", path |-> write_pairs[k][1], dst |-> write_pairs[k][2]]]
    \o [k \in 1..Len(header_files) |->
          [kind |-> "header", path |-> header_files[k], dst |-> <<>>]]

\* lines 8-12: the compile calls of a pass, in order
trigger_recompile(write_pairs, header_files) ==
    [k \in 1..Len(header_files) |->
        [kind |-> "header", path |-> header_files[k], dst |-> <<>>]]
    \o [k \in 1..Len(write_pairs) |->
          [kind |-> "source", path |-> write_pairs[k][1], dst |-> write_pairs[k][2]]]

-----------------------------------------------------------------------------
(* The state machine: one top-level caller, the stack of compile calls *)

\* an instance right after AlthtmlCompiler(), no compile call made on it yet
Constructed ==
    /\ dicts = << <<>>, <<>> >>
    /\ frames = <<[NewCompiler EXCEPT !.variables = 1, !.macros = 2]>>
    /\ status = "idle"
    /\ result = <<>>
    /\ error = ""
    /\ source = <<>>
    /\ prev = [status |-> "none", source |-> <<>>, result |-> <<>>,
               variables |-> <<>>, macros |-> <<>>]
    /\ calls = 0

\* a caller holds the instance; no file is watched
Init ==
    /\ Constructed
    /\ watch = ChangeHandler(<<>>, <<>>)
    /\ disk = <<>>

\* an instance with the tables its references point to
Load(f) == [f EXCEPT !.variables = dicts[f.variables], !.macros = dicts[f.macros]]

Top == Load(frames[Len(frames)])
Caller == Load(frames[Len(frames) - 1])
Callers == SubSeq(frames, 1, Len(frames) - 1)

\* the while loop of compile is at a line
AtLine == status = "running" /\ Top.pc = "loop" /\ Top.i < Len(Top.lines)
CurrentLine == Top.lines[Top.i + 1]

\* lines 779-796 for a line the loop does not skip
LineLevel == get_indent_level(Top.indent_size, Top.indent_type, RStripNewline(CurrentLine))
Dispatched == AtLine /\ ~Skipped(CurrentLine)
\* a variant of the test of line 218 that lets a jump of two levels through
IllegalIndentLoose == LineLevel.fatal \/ LineLevel.level > Top.current_indent_level + 2

IllegalIndent == LineLevel.fatal \/ LineLevel.level > Top.current_indent_level + 1

\* _process_line, lines 192-214: the line with its inline comment stripped,
\* and the branch it takes
Line == StripComment(Strip(CurrentLine))
Kind == LineKind(Line)

\* the instance as _process_line has it at line 218, the indent unit detected
\* and the tables recorded as they are before the line acts
Numbered(self, lv, kind) ==
    [self EXCEPT !.indent_size = lv.indent_size, !.indent_type = lv.indent_type,
                 !.line_number = self.i + 1,
                 !.before = [kind |-> kind, variables |-> self.variables,
                             macros |-> self.macros]]

\* the instance at line 232, where the branches of _process_line start
Entered == EnterLine(Numbered(Top, LineLevel, Kind), LineLevel.level)

\* lines 85-86 and 218-219
IndentFatal(self, lv) ==
    IF lv.fatal THEN Fatal(self, INDENT_ERROR)
    ELSE Fatal(self, "Invalid indentation increase.")

\* a variant that hands the caller's dict objects to the new instance, as
\* x.variables = self.variables would
SharedTables(ds, variables, macros) ==
    [dicts |-> ds, variables |-> variables, macros |-> macros]

\* x = AlthtmlCompiler(); x.variables = self.variables.copy();
\* x.macros = self.macros.copy(): two new dict objects, and the references to them
CopyTables(ds, variables, macros) ==
    [dicts |-> ds \o <<ds[variables], ds[macros]>>,
     variables |-> Len(ds) + 1, macros |-> Len(ds) + 2]

\* the dict objects that the instances of stack still refer to
Live(ds, stack) ==
    SubSeq(ds, 1, Max({stack[k].variables : k \in 1..Len(stack)}
                      \cup {stack[k].macros : k \in 1..Len(stack)}))

\* What the outcome of a handler running in the instance on top of stack
\* does to the program: the loop goes on, an exception unwinds every call up
\* to the top-level caller, or a sub-compiler is entered. A sub-compiler
\* deeper than MaxDepth stands for the interpreter's RecursionError.
ApplySuppressed(stack, outcome) ==
    LET top == stack[Len(stack)]
        stored(self) == [self EXCEPT !.variables = top.variables, !.macros = top.macros]
        written == [dicts EXCEPT ![top.variables] = outcome.self.variables,
                                 ![top.macros] = outcome.self.macros]
        raised == <<[stored(IF Len(stack) = 1 THEN outcome.self ELSE Load(stack[1]))
                        EXCEPT !.variables = stack[1].variables,
                               !.macros = stack[1].macros,
                               !.pc = "raised", !.wait = NoWait]>>
        sub == CopyTables(written, top.variables, top.macros)
    IN  IF outcome.kind = "consumed"
        THEN /\ frames' = [stack EXCEPT ![Len(stack)] =
                              [stored(outcome.self) EXCEPT !.i = @ + outcome.consumed,
                                                           !.pc = "loop", !.wait = NoWait]]
             /\ dicts' = Live(written, stack)
             /\ UNCHANGED <<status, error>>
        ELSE IF outcome.kind = "fatal" /\ Len(stack) > 1
        THEN /\ frames' = [stack EXCEPT ![Len(stack)] =
                              [stored(outcome.self) EXCEPT !.pc = "return",
                                                           !.html_output = <<>>,
                                                           !.wait = NoWait]]
             /\ dicts' = Live(written, stack)
             /\ UNCHANGED <<status, error>>
        ELSE IF outcome.kind = "fatal"
        THEN /\ frames' = raised
             /\ dicts' = Live(written, raised)
             /\ status' = "error"
             /\ error' = outcome.message
        ELSE IF Len(stack) >= MaxDepth
        THEN /\ frames' = raised
             /\ dicts' = Live(written, raised)
             /\ status' = "error"
             /\ error' = "RecursionError"
        ELSE /\ frames' = Append([stack EXCEPT ![Len(stack)] = stored(outcome.self)],
                                 EnterCompile([NewCompiler EXCEPT
                                                  !.variables = sub.variables,
                                                  !.macros = sub.macros],
                                              outcome.text))
             /\ dicts' = sub.dicts
             /\ UNCHANGED <<status, error>>

Apply(stack, outcome) ==
    LET top == stack[Len(stack)]
        stored(self) == [self EXCEPT !.variables = top.variables, !.macros = top.macros]
        written == [dicts EXCEPT ![top.variables] = outcome.self.variables,
                                 ![top.macros] = outcome.self.macros]
        raised == <<[stored(IF Len(stack) = 1 THEN outcome.self ELSE Load(stack[1]))
                        EXCEPT !.variables = stack[1].variables,
                               !.macros = stack[1].macros,
                               !.pc = "raised", !.wait = NoWait]>>
        sub == CopyTables(written, top.variables, top.macros)
    IN  IF outcome.kind = "consumed"
        THEN /\ frames' = [stack EXCEPT ![Len(stack)] =
                              [stored(outcome.self) EXCEPT !.i = @ + outcome.consumed,
                                                           !.pc = "loop", !.wait = NoWait]]
             /\ dicts' = Live(written, stack)
             /\ UNCHANGED <<status, error>>
        ELSE IF outcome.kind = "fatal"
        THEN /\ frames' = raised
             /\ dicts' = Live(written, raised)
             /\ status' = "error"
             /\ error' = outcome.message
        ELSE IF Len(stack) >= MaxDepth
        THEN /\ frames' = raised
             /\ dicts' = Live(written, raised)
             /\ status' = "error"
             /\ error' = "RecursionError"
        ELSE /\ frames' = Append([stack EXCEPT ![Len(stack)] = stored(outcome.self)],
                                 EnterCompile([NewCompiler EXCEPT
                                                  !.variables = sub.variables,
                                                  !.macros = sub.macros],
                                              outcome.text))
             /\ dicts' = sub.dicts
             /\ UNCHANGED <<status, error>>

\* clear_macro_variables: self.variables = {}; self.macros = {}
clear_macro_variables(ds, self) ==
    [ds EXCEPT ![self.variables] = <<>>, ![self.macros] = <<>>]

\* a variant of compile that also empties the two tables at entry
TablesCleared(ds, self) == clear_macro_variables(ds, self)

\* the dict objects once compile has done its reset (lines 768-773), which
\* assigns neither self.variables nor self.macros
TablesAtEntry(ds, self) == ds

\* compiler.compile(source) called on the caller's instance; prev keeps what
\* the caller has seen of the call before, and the tables as this call finds them
Call(text) ==
    /\ status \in {"idle", "done", "error"}
    /\ frames' = <<EnterCompile(frames[1], text)>>
    /\ source' = text
    /\ dicts' = TablesAtEntry(dicts, frames[1])
    /\ status' = "running"
    /\ prev' = [status |-> status, source |-> source, result |-> result,
                variables |-> dicts[frames[1].variables],
                macros |-> dicts[frames[1].macros]]
    /\ result' = <<>>
    /\ error' = ""
    /\ calls' = calls + 1

\* a caller that holds the instance compiles a source, then the same source
\* again or one that uses what the first may have defined
Compile ==
    /\ calls < MaxCalls
    /\ \E text \in (IF calls = 0 THEN Sources ELSE Later(source)) : Call(text)
    /\ UNCHANGED <<watch, disk>>

\* compiler.clear_macro_variables() called between two compile calls
ClearMacroVariables ==
    /\ status \in {"done", "error"}
    /\ calls < MaxCalls
    /\ dicts # clear_macro_variables(dicts, frames[1])
    /\ dicts' = clear_macro_variables(dicts, frames[1])
    /\ UNCHANGED <<frames, status, result, error, source, prev, calls, watch, disk>>

\* lines 785-788: a blank or comment-only line is passed over by the loop
SkipLine ==
    /\ AtLine
    /\ Skipped(CurrentLine)
    /\ frames' = [frames EXCEPT ![Len(frames)].i = @ + 1,
                                ![Len(frames)].line_number = Top.i + 1]
    /\ UNCHANGED <<dicts, status, result, error, source, prev, calls, watch, disk>>

\* lines 85-86 and 218-219: the line's indentation is fatal
IndentationError ==
    /\ Dispatched
    /\ IllegalIndent
    /\ Apply(frames, IndentFatal(Numbered(Top, LineLevel, Kind), LineLevel))
    /\ UNCHANGED <<result, source, prev, calls, watch, disk>>

\* a line of one of kinds is dispatched and its branch of _process_line runs
Handle(kinds, outcome) ==
    /\ Dispatched
    /\ ~IllegalIndent
    /\ Kind \in kinds
    /\ Apply(frames, outcome)
    /\ UNCHANGED <<result, source, prev, calls, watch, disk>>

\* lines 239-241
SetLine ==
    Handle({"set"}, handle_set(Entered, Line, LineLevel.level, Top.lines, Top.i))

\* lines 242-244
MacroDefinitionLine ==
    Handle({"macro"},
           handle_macro_definition(Entered, Line, LineLevel.level, Top.lines, Top.i))

\* lines 247-249
MacroInvocationLine ==
    Handle({"invoke"}, handle_macro_invocation(Entered, Line, LineLevel.level))

\* lines 252-254
MacroCallLine ==
    Handle({"call"}, handle_macro_call(Entered, Line, LineLevel.level, Top.lines, Top.i))

\* "| text", "raw text", "raw@ text"
TextLine ==
    Handle({"text", "raw_line", "rawat_line"}, one_line_text(Entered, Kind, Line))

\* lines 268-278
RawBlock ==
    Handle({"raw_block"}, raw_block(Entered, LineLevel.level, Top.lines, Top.i))

\* lines 292-309
RawSubstitutedBlock ==
    Handle({"rawat_block"}, rawat_block(Entered, LineLevel.level, Top.lines, Top.i))

\* lines 234-236 and 325-374. A line that is empty once its comment is
\* stripped would start with the comment marker, and the loop of compile has
\* passed over such a line already.
TagLine ==
    Handle({"empty", "tag"},
           IF Kind = "empty" THEN Consumed(Entered, 1)
           ELSE tag_line(Entered, Line, LineLevel.level))

\* lines 376-394
ImplicitTextLine ==
    Handle({"implicit"}, implicit_text(Entered, Line))

\* lines 798-809: the loop is over; flush the stack, trim one final newline
EndOfInput ==
    /\ status = "running"
    /\ Top.pc = "loop"
    /\ ~(Top.i < Len(Top.lines))
    /\ frames' = [frames EXCEPT ![Len(frames)] =
                      [close_tags(@, 0) EXCEPT
                          !.pc = "return",
                          !.html_output = IF EndsWith(@, <<NL>>) THEN Take(@, Len(@) - 1) ELSE @]]
    /\ UNCHANGED <<dicts, status, result, error, source, prev, calls, watch, disk>>

\* the top-level compile returns self.html_output
Return ==
    /\ status = "running"
    /\ Len(frames) = 1
    /\ Top.pc = "return"
    /\ status' = "done"
    /\ result' = Top.html_output
    /\ frames' = [frames EXCEPT ![1].pc = "returned"]
    /\ UNCHANGED <<dicts, error, source, prev, calls, watch, disk>>

\* a sub-compiler returns to the handler that waits for it
Resume(pc, outcome) ==
    /\ status = "running"
    /\ Len(frames) > 1
    /\ Top.pc = "return"
    /\ Caller.pc = pc
    /\ Apply(Callers, outcome)
    /\ UNCHANGED <<result, source, prev, calls, watch, disk>>

SetReturn == Resume("set", resume_set(Caller, Top.html_output))
InvocationReturn == Resume("invoke", resume_invocation(Caller, Top.html_output))
ArgumentReturn == Resume("arg", resume_argument(Caller, Top.html_output))
CallReturn == Resume("call", resume_call(Caller, Top.html_output))

Next ==
    \/ Compile
    \/ ClearMacroVariables
    \/ SkipLine
    \/ IndentationError
    \/ SetLine
    \/ MacroDefinitionLine
    \/ MacroInvocationLine
    \/ MacroCallLine
    \/ TextLine
    \/ RawBlock
    \/ RawSubstitutedBlock
    \/ TagLine
    \/ ImplicitTextLine
    \/ EndOfInput
    \/ Return
    \/ SetReturn
    \/ InvocationReturn
    \/ ArgumentReturn
    \/ CallReturn

Spec == Init /\ [][Next]_vars

-----------------------------------------------------------------------------
(* The watcher: a ChangeHandler, its compiler and the files *)

WatchInit ==
    /\ Constructed
    /\ \E headers \in HeaderLists, sources \in SourceLists :
          /\ watch = ChangeHandler([k \in 1..Len(sources) |->
                                      <<SourcePath(k), DestinationPath(k)>>],
                                   [k \in 1..Len(headers) |-> HeaderPath(k)])
          /\ disk = Files(headers, sources)

\* on_modified, lines 22-31, for a file of files_to_watch: a pass starts
OnModified ==
    /\ watch.pc = "idle"
    /\ watch.passes < MaxPasses
    /\ watch' = [watch EXCEPT !.pc = "pass",
                              !.jobs = trigger_recompile(watch.write_pairs,
                                                         watch.header_files),
                              !.passes = @ + 1,
                              !.log = <<>>]
    /\ UNCHANGED <<frames, dicts, status, result, error, source, prev, calls, disk>>

\* the pass is about to make the compile call of a file of this kind
NextJob(kind) ==
    /\ watch.pc = "pass"
    /\ watch.waiting = NoJob
    /\ watch.jobs # <<>>
    /\ Head(watch.jobs).kind = kind

Started(job) ==
    [watch EXCEPT !.waiting = job,
                  !.jobs = Tail(@),
                  !.log = Append(@, [event |-> "compile", kind |-> job.kind,
                                     path |-> job.path])]

\* line 9: compiler.compile(open(h, "r").read())
CompileHeader ==
    /\ NextJob("header")
    /\ Call(disk[Head(watch.jobs).path])
    /\ watch' = Started(Head(watch.jobs))
    /\ UNCHANGED disk

\* line 9, the call returned: its value is dropped
HeaderCompiled ==
    /\ watch.waiting.kind = "header"
    /\ status = "done"
    /\ watch' = [watch EXCEPT !.waiting = NoJob]
    /\ UNCHANGED <<frames, dicts, status, result, error, source, prev, calls, disk>>

\* lines 11-12: open(v, "w+"), then compiler.compile(open(k, "r").read())
CompileSource ==
    /\ NextJob("source")
    /\ disk' = Open(disk, Head(watch.jobs).dst)
    /\ Call(Open(disk, Head(watch.jobs).dst)[Head(watch.jobs).path])
    /\ watch' = Started(Head(watch.jobs))

\* line 12, the call returned: f.write(...), and the file is closed
WriteOutput ==
    /\ watch.waiting.kind = "source"
    /\ status = "done"
    /\ disk' = Write(disk, watch.waiting.dst, result)
    /\ watch' = [watch EXCEPT !.waiting = NoJob,
                              !.log = Append(@, [event |-> "write", kind |-> "source",
                                                 path |-> watch.waiting.dst])]
    /\ UNCHANGED <<frames, dicts, status, result, error, source, prev, calls>>

\* trigger_recompile returns
PassDone ==
    /\ watch.pc = "pass"
    /\ watch.waiting = NoJob
    /\ watch.jobs = <<>>
    /\ watch' = [watch EXCEPT !.pc = "idle"]
    /\ UNCHANGED <<frames, dicts, status, result, error, source, prev, calls, disk>>

\* a compile call raised: the exception leaves trigger_recompile and on_modified
PassAborted ==
    /\ watch.waiting # NoJob
    /\ status = "error"
    /\ watch' = [watch EXCEPT !.pc = "aborted", !.waiting = NoJob]
    /\ UNCHANGED <<frames, dicts, status, result, error, source, prev, calls, disk>>

WatchNext ==
    \/ OnModified
    \/ CompileHeader
    \/ HeaderCompiled
    \/ CompileSource
    \/ WriteOutput
    \/ PassDone
    \/ PassAborted
    \/ SkipLine
    \/ IndentationError
    \/ SetLine
    \/ MacroDefinitionLine
    \/ MacroInvocationLine
    \/ MacroCallLine
    \/ TextLine
    \/ RawBlock
    \/ RawSubstitutedBlock
    \/ TagLine
    \/ ImplicitTextLine
    \/ EndOfInput
    \/ Return
    \/ SetReturn
    \/ InvocationReturn
    \/ ArgumentReturn
    \/ CallReturn

WatchSpec == WatchInit /\ [][WatchNext]_vars

-----------------------------------------------------------------------------
(* The Attribute Parser alone: _parse_attributes on an attribute string *)

MaxTokens == 3     \* tokens of an attribute string

\* tokens: two id shortcuts, two bare words, a class attribute with a word
\* that is also a bare word, two other attributes
AttrWords ==
    {<<"#","a">>, <<"#","b">>, <<"c">>, <<"d">>,
     <<"c","l","a","s","s","=",QUOTE,"d",SP,"c",QUOTE>>,
     <<"k","=",QUOTE,"v",QUOTE>>, <<"n","=","w">>}

\* the attribute strings of up to MaxTokens tokens, one blank between tokens
AttrStrings == {Join(l, <<SP>>) : l \in ListsOf(AttrWords, MaxTokens)}

\* the Variable Table of the instance: empty, or d set to "#e"
AttrTables == {<<>>, <<[name |-> <<"d">>, value |-> <<"#","e">>]>>}

\* an instance with its Variable Table, and an attribute string to parse
ParseInit ==
    /\ \E variables \in AttrTables : dicts = <<variables, <<>>>>
    /\ frames = <<[NewCompiler EXCEPT !.variables = 1, !.macros = 2]>>
    /\ status = "idle"
    /\ result = <<>>
    /\ error = ""
    /\ source \in AttrStrings
    /\ prev = [status |-> "none", source |-> <<>>, result |-> <<>>,
               variables |-> <<>>, macros |-> <<>>]
    /\ calls = 0
    /\ watch = ChangeHandler(<<>>, <<>>)
    /\ disk = <<>>

\* self._parse_attributes(attr_string), lines 117-184
ParseAttributes ==
    /\ status = "idle"
    /\ result' = parse_attributes(Top.variables, source)
    /\ status' = "done"
    /\ UNCHANGED <<frames, dicts, error, source, prev, calls, watch, disk>>

ParseSpec == ParseInit /\ [][ParseAttributes]_vars

-----------------------------------------------------------------------------
(* Properties *)

\* number of places of s at which p occurs
Occurrences(s, p) ==
    Cardinality({k \in 0..(Len(s) - Len(p)) : SubSeq(s, k + 1, k + Len(p)) = p})

CLOSE == <<"<", "/">>

\* compile has run to its return statement in instance f
Finished(f) == f.pc \in {"return", "returned"}

\* how often the entry pushed as the n-th of the call was popped in f, and
\* how often it is on the stack of f
TimesPopped(f, n) == Cardinality({j \in 1..Len(f.popped) : f.popped[j].entry.serial = n})
TimesOpen(f, n) == Cardinality({j \in 1..Len(f.tag_stack) : f.tag_stack[j].serial = n})

\* C1: in every compile call, of the caller or of a sub-compiler, each entry
\* pushed is either still on the stack or was popped exactly once; a popped
\* entry got a closing tag exactly if it is neither self-closing nor the
\* document-type tag; and when compile returns the stack is empty, so that
\* every entry pushed was popped once. For the sources without directives
\* the closing tags are counted in the output itself: as many as entries popped,
\* and in the returned text as many as entries pushed.
PushedPoppedOnce ==
    /\ \A k \in 1..Len(frames) :
          /\ Len(frames[k].popped) + Len(frames[k].tag_stack) = frames[k].pushed
          /\ \A n \in 1..frames[k].pushed :
                TimesPopped(frames[k], n) + TimesOpen(frames[k], n) = 1
          /\ \A j \in 1..Len(frames[k].popped) :
                frames[k].popped[j].closed
                    = ~(\/ frames[k].popped[j].entry.self_closing
                        \/ Lower(frames[k].popped[j].entry.tag_name) = DOCTYPE)
          /\ Finished(frames[k]) =>
                /\ frames[k].tag_stack = <<>>
                /\ \A n \in 1..frames[k].pushed : TimesPopped(frames[k], n) = 1
    /\ source \in Generated =>
          /\ Occurrences(frames[1].html_output, CLOSE) = Len(frames[1].popped)
          /\ status = "done" => Occurrences(result, CLOSE) = frames[1].pushed

\* a call that pushed two entries or more has returned
SeveralPushedAndReturned ==
    /\ status = "done"
    /\ frames[1].pushed >= 2
    /\ Len(frames[1].popped) = frames[1].pushed

\* the caller's compile is at its first line, the reset of lines 768-773 done
AtEntry == status = "running" /\ Len(frames) = 1 /\ frames[1].pc = "loop" /\ frames[1].i = 0

VarA == <<"a">>

\* C2 as stated: two successive compile calls of the same source on one
\* instance return the same output
SameSourceSameOutput ==
    (status = "done" /\ prev.status = "done" /\ prev.source = source)
        => result = prev.result

\* C2: at entry compile has reset the output, the stack, the indentation
\* state and the line counter, and the Variable Table and the Macro Table
\* hold what the call found in them; the source "| a / set a = "X"" returns
\* "a" when the call finds no variable a and "X" when an earlier call on the
\* instance has set it.
TablesPersist ==
    /\ AtEntry =>
          /\ dicts[frames[1].variables] = prev.variables
          /\ dicts[frames[1].macros] = prev.macros
          /\ frames[1].html_output = <<>>
          /\ frames[1].tag_stack = <<>>
          /\ frames[1].current_indent_level = 0
          /\ frames[1].line_number = 0
          /\ frames[1].indent_size = 0
          /\ frames[1].indent_type = ""
    /\ (status = "done" /\ source = SrcUseThenSet) =>
          result = IF Has(prev.variables, VarA) THEN <<"X">> ELSE VarA

\* the second of two calls of one source returned another output than the first
SecondCallDiffers ==
    /\ status = "done"
    /\ prev.status = "done"
    /\ prev.source = source
    /\ result # prev.result

\* the handlers that wait for a sub-compiler
Waiting == {"set", "invoke", "arg", "call"}

TablesAsBefore(f) ==
    /\ dicts[f.variables] = f.before.variables
    /\ dicts[f.macros] = f.before.macros

\* the Variable Table of f is the one before the line with one variable assigned
OneAssigned(f) ==
    \/ dicts[f.variables] = f.before.variables
    \/ \E k \in 1..Len(dicts[f.variables]) :
          dicts[f.variables] = Put(f.before.variables, dicts[f.variables][k])

\* the caller's compile is at its return statement
Returning == status = "running" /\ Len(frames) = 1 /\ frames[1].pc = "return"

\* C3: during a compile call, while a handler waits for a sub-compiler the
\* caller's two tables are what they were before the line; after "@name" and
\* "!name" they still are; after "set" the Macro Table is and the Variable
\* Table differs in one variable at most. What the bodies of the curated
\* sources set and define is in no table of the caller when its compile returns.
SubCompilationIsolated ==
    /\ status = "running" =>
          \A k \in 1..Len(frames) :
              /\ frames[k].pc \in Waiting => TablesAsBefore(frames[k])
              /\ frames[k].before.kind \in {"invoke", "call"} => TablesAsBefore(frames[k])
              /\ frames[k].before.kind = "set" =>
                    /\ dicts[frames[k].macros] = frames[k].before.macros
                    /\ OneAssigned(frames[k])
    /\ (Returning /\ source \in {SrcInvokeDefines, SrcCallDefines}) =>
          /\ dicts[frames[1].variables] = <<[name |-> VarA, value |-> <<"X">>]>>
          /\ Len(dicts[frames[1].macros]) = 1
    /\ (Returning /\ source = SrcSetBlock) =>
          /\ Keys(dicts[frames[1].variables]) = <<VarA, <<"v">> >>
          /\ Get(dicts[frames[1].variables], VarA).value = <<"X">>
          /\ dicts[frames[1].macros] = <<>>

\* a sub-compiler that changed its tables has run to its end and the handler
\* that called it waits
SubCompilerChangedItsCopy ==
    \E k \in 1..(Len(frames) - 1) :
        /\ frames[k].pc \in Waiting
        /\ frames[k + 1].pc = "return"
        /\ \/ dicts[frames[k + 1].variables] # dicts[frames[k].variables]
           \/ dicts[frames[k + 1].macros] # dicts[frames[k].macros]

\* C4 as stated: the levels of the entries do not increase from the bottom of
\* the stack to the top
StackNonIncreasing ==
    \A k \in 1..Len(frames) :
        \A j \in 1..(Len(frames[k].tag_stack) - 1) :
            frames[k].tag_stack[j].indent_level >= frames[k].tag_stack[j + 1].indent_level

\* C4: the levels of the entries do not decrease from the bottom of the stack
\* to the top, in every instance and every state
StackNonDecreasing ==
    \A k \in 1..Len(frames) :
        \A j \in 1..(Len(frames[k].tag_stack) - 1) :
            frames[k].tag_stack[j].indent_level <= frames[k].tag_stack[j + 1].indent_level

\* two entries are open after entries were closed
TwoOpenAfterClosing ==
    \E k \in 1..Len(frames) :
        /\ Len(frames[k].tag_stack) >= 2
        /\ frames[k].popped # <<>>

\* the line at which the loop is has a level more than one above the current
IndentJump ==
    /\ Dispatched
    /\ ~LineLevel.fatal
    /\ LineLevel.level > Top.current_indent_level + 1

\* C5: a step of the loop at a line whose level exceeds the current level by
\* more than 1 ends the caller's compile with the fatal indentation error and
\* without output; the caller's instance has closed no tag and emitted
\* nothing in that step.
IndentJumpIsFatal ==
    [][IndentJump =>
          /\ status' = "error"
          /\ error' = "Invalid indentation increase."
          /\ result' = <<>>
          /\ Len(frames') = 1
          /\ frames'[1].pc = "raised"
          /\ frames'[1].html_output = frames[1].html_output
          /\ frames'[1].tag_stack = frames[1].tag_stack
          /\ frames'[1].popped = frames[1].popped
          /\ frames'[1].pushed = frames[1].pushed]_vars

\* the error was raised with tags open and output emitted
JumpWithTagsOpen ==
    /\ status = "error"
    /\ error = "Invalid indentation increase."
    /\ frames[1].tag_stack # <<>>
    /\ frames[1].html_output # <<>>
    /\ result = <<>>

\* the caller's compile has returned the text for source text
Compiled(text) == status = "done" /\ source = text

OutHelloText ==
    <<"<","p",">",NL>>
    \o <<SP,SP,"h","e","l","l","o",SP,"w","o","r","l","d",NL>>
    \o <<"<","/","p",">">>

OutHelloTag ==
    <<"<","p",">",NL>>
    \o <<SP,SP,"<","h","e","l","l","o",SP,"c","l","a","s","s","=",QUOTE,"w","o","r","l","d",QUOTE,">",NL>>
    \o <<SP,SP,"<","/","h","e","l","l","o",">",NL>>
    \o <<"<","/","p",">">>

OutImplicit ==
    <<"<","p",">",NL>>
    \o <<SP,SP,".","h","e","l","l","o",SP,"w","o","r","l","d",NL>>
    \o <<"<","/","p",">">>

OutImplicitTabs ==
    <<"<","p",">",NL>>
    \o <<SP,SP,"(","a",SP,"b",")",SP,"v",SP,SP,"v",NL>>
    \o <<"<","/","p",">">>

\* C6 as stated: the line "hello   world" under a tag yields the text
\* "hello world" and opens no tag
HelloWorldIsText ==
    Compiled(SrcHelloWorld) => (result = OutHelloText /\ frames[1].pushed = 1)

\* C6: a line that starts with no directive prefix and no tag token is
\* emitted as text inside its parent tag, runs of spaces and tabs collapsed
\* to one space before variables are substituted, and opens no tag:
\* ".hello   world" under p yields ".hello world". The line "hello   world"
\* starts with a tag token: it opens the tag hello with the class world.
ImplicitTextCollapsed ==
    /\ Compiled(SrcImplicit) => (result = OutImplicit /\ frames[1].pushed = 1)
    /\ Compiled(SrcImplicitTabs) => (result = OutImplicitTabs /\ frames[1].pushed = 1)
    /\ Compiled(SrcHelloWorld) => (result = OutHelloTag /\ frames[1].pushed = 2)
    /\ source \in Generated =>
          /\ Occurrences(frames[1].html_output, <<".","t",SP,SP,"u">>) = 0
          /\ status = "done" =>
                Occurrences(result, <<".","t",SP,"u">>)
                    = Occurrences(source, <<".","t",SP,SP,"u">>)

\* the implicit text line under a tag was compiled
ImplicitTextCompiled == Compiled(SrcImplicit) /\ frames[1].pushed = 1

OutSiblings ==
    <<"<","a",">",NL>>
    \o <<SP,SP,"<","b",">",NL>>
    \o <<SP,SP,"<","/","b",">",NL>>
    \o <<SP,SP,"<","c",">",NL>>
    \o <<SP,SP,"<","/","c",">",NL>>
    \o <<"<","/","a",">">>

\* C7: the source "a / \tb / \tc" compiles to the opening tag of a, the
\* opening tag of b, the closing tag of b, the opening tag of c, the closing
\* tag of c and the closing tag of a, in this order and nothing else; the
\* entries are popped in the order b, c, a.
SiblingsCloseInOrder ==
    Compiled(SrcSiblings) =>
        /\ result = OutSiblings
        /\ [j \in 1..Len(frames[1].popped) |-> frames[1].popped[j].entry.tag_name]
              = << <<"b">>, <<"c">>, <<"a">> >>

\* the source with the two siblings was compiled
SiblingsCompiled == Compiled(SrcSiblings) /\ Len(frames[1].popped) = 3

OutSelfClosing ==
    <<"<","p",">",NL>>
    \o <<SP,SP,"<","b","r",SP,"/",">",NL>>
    \o <<SP,SP,"<","h","r",SP,"i","d","=",QUOTE,"r",QUOTE,SP,"c","l","a","s","s","=",QUOTE,"w","i","d","e",QUOTE,SP,"k","=",QUOTE,"v",QUOTE,SP,"/",">",NL>>
    \o <<SP,SP,"<","q",">",NL>>
    \o <<SP,SP,"<","/","q",">",NL>>
    \o <<"<","/","p",">">>

\* the loop is at a tag line whose tag token is followed by ">"
SelfClosingLine ==
    /\ Dispatched
    /\ ~LineLevel.fatal
    /\ LineLevel.level <= Top.current_indent_level + 1
    /\ Kind = "tag"
    /\ TagMatch(Line).is_self_closing

\* what a step at a self-closing line does to the instance f, giving g
SelfClosingStep(f, g, level) ==
    /\ g.pushed = f.pushed
    /\ Len(g.tag_stack) <= Len(f.tag_stack)
    /\ g.tag_stack = SubSeq(f.tag_stack, 1, Len(g.tag_stack))
    /\ \A j \in 1..Len(g.tag_stack) : g.tag_stack[j].indent_level < level
    /\ \A j \in (Len(g.tag_stack) + 1)..Len(f.tag_stack) :
          f.tag_stack[j].indent_level >= level
    /\ Occurrences(g.html_output, CLOSE)
          = Occurrences(f.html_output, CLOSE) + (Len(f.tag_stack) - Len(g.tag_stack))
    /\ EndsWith(g.html_output, <<SP, "/", ">", NL>>)
    /\ Count(g.html_output, NL)
          = Count(f.html_output, NL) + (Len(f.tag_stack) - Len(g.tag_stack)) + 1
    /\ g.i = f.i + 1

\* C8: a step at a self-closing tag line pushes nothing, leaves on the stack
\* exactly the entries below the level of the line, appends one closing tag
\* for each entry it closed and then the single line "<tag attrs />", the
\* inline text being dropped; "p / \tbr> | text / \thr> wide #r k="v" / \tq"
\* compiles to br and hr without closing tags and without the text.
SelfClosingNeverPushed ==
    /\ [](Compiled(SrcSelfClosing) => (result = OutSelfClosing /\ frames[1].pushed = 2))
    /\ [][SelfClosingLine =>
             /\ Len(frames') = Len(frames)
             /\ SelfClosingStep(frames[Len(frames)], frames'[Len(frames)],
                                LineLevel.level)]_vars

\* the source with the self-closing lines was compiled
SelfClosingCompiled == Compiled(SrcSelfClosing) /\ frames[1].pushed = 2

OutImgEnd ==
    <<"<","i","m","g",SP,"s","r","c","=",QUOTE,"&","q","u","o","t",";","x",".","p","n","g","&","q","u","o","t",";",">",QUOTE,">",NL>>
    \o <<"<","/","i","m","g",">">>

OutImgMarker ==
    <<"<","i","m","g",SP,"s","r","c","=",QUOTE,"x",".","p","n","g",QUOTE,SP,"/",">">>

IMG == <<"i","m","g">>

\* C9 as stated: for the line "img src="x.png">" no img entry is pushed and
\* no closing tag "</img>" is emitted
TrailingMarkerSelfCloses ==
    source = SrcImgEnd =>
        /\ \A k \in 1..Len(frames) :
              \A j \in 1..Len(frames[k].tag_stack) :
                  frames[k].tag_stack[j].tag_name # IMG
        /\ Occurrences(result, CLOSE \o IMG) = 0

\* C9: the marker is taken for the self-closing marker only right after the
\* tag token: "img> src="x.png"" pushes nothing and compiles to
\* "<img src="x.png" />"; in "img src="x.png">" the ">" is part of the
\* attribute value, an img entry is pushed and "</img>" is emitted.
MarkerFollowsTagToken ==
    /\ Compiled(SrcImgMarker) => (result = OutImgMarker /\ frames[1].pushed = 0)
    /\ Compiled(SrcImgEnd) =>
          /\ result = OutImgEnd
          /\ frames[1].pushed = 1
          /\ frames[1].popped[1].entry.tag_name = IMG
          /\ frames[1].popped[1].closed

\* the line with the marker at its end was compiled
TrailingMarkerCompiled == Compiled(SrcImgEnd) /\ frames[1].pushed = 1

\* the lengths of the names of a sequence do not increase
LongestFirst(names) ==
    \A j \in 1..(Len(names) - 1) : Len(names[j]) >= Len(names[j + 1])

OutSubstChain ==
    <<"<","p",">",NL>>
    \o <<SP,SP,"c","X","c",NL>>
    \o <<"<","/","p",">">>

OutGreetOneLine ==
    <<"<","p",">","H","e","l","l","o",SP,"W","o","r","l","d","!","<","/","p",">">>

OutGreet ==
    <<"<","p",">",NL>>
    \o <<SP,SP,"H","e","l","l","o",SP,"W","o","r","l","d","!",NL>>
    \o <<"<","/","p",">">>

GREET == <<"g","r","e","e","t">>

\* C11 as stated: the call of greet with the text argument "| World" makes
\* compile return exactly "<p>Hello World!</p>"
GreetOnOneLine == Compiled(SrcGreet) => result = OutGreetOneLine

\* C11: the call of greet with the text argument "| World" makes compile
\* return the opening tag of p, the text "Hello World!" on a line of its own
\* behind two spaces, and the closing tag of p on a third line; the macro is
\* recorded with one argument.
GreetOnThreeLines ==
    /\ Compiled(SrcGreet) => result = OutGreet
    /\ (Returning /\ source = SrcGreet) =>
          /\ Keys(dicts[frames[1].macros]) = <<GREET>>
          /\ Get(dicts[frames[1].macros], GREET).arg_count = 1
          /\ frames[1].pushed = 0

\* the call of greet was compiled
GreetCompiled == Compiled(SrcGreet) /\ result # <<>>

\* the name on the "!name" line at which the loop is, and the argument blocks
\* collected for it
CallName == Strip(Drop(Line, 1))
CallBlocks == get_argument_blocks(Entered, LineLevel.level, Top.lines, Top.i)
Supplied == Len(CallBlocks.arg_blocks)
Expected == Get(Top.macros, CallName).arg_count

\* the loop is at a "!name" line that names an argument macro, and the
\* blocks after it were collected
ArgMacroCalled ==
    /\ Dispatched
    /\ ~LineLevel.fatal
    /\ LineLevel.level <= Top.current_indent_level + 1
    /\ Kind = "call"
    /\ Has(Top.macros, CallName)
    /\ Get(Top.macros, CallName).is_arg_macro
    /\ ~CallBlocks.fatal

\* the placeholder @d stands on a line of the body of macro, outside comments
HasPlaceholder(macro, d) ==
    \E n \in 1..Len(macro.definition_lines) :
        Occurrences(BeforeFirst(macro.definition_lines[n], COMMENT),
                    <<"@">> \o IntToStr(d)) > 0

\* arg_count is one more than the highest placeholder of the body, 0 without
PlaceholdersCounted(macro) ==
    IF macro.is_arg_macro /\ \E d \in 0..9 : HasPlaceholder(macro, d)
    THEN /\ macro.arg_count \in 1..10
         /\ HasPlaceholder(macro, macro.arg_count - 1)
         /\ \A d \in macro.arg_count..9 : ~HasPlaceholder(macro, d)
    ELSE macro.arg_count = 0

\* the output of the caller's instance once the closing rule was applied for the line
OutputAtDispatch == IF Len(frames) = 1 THEN Entered.html_output ELSE frames[1].html_output

Failed(text, message) == (status = "error" /\ source = text) => error = message

OutPV ==
    <<"<","p",">",NL>>
    \o <<SP,SP,"V",NL>>
    \o <<"<","/","p",">">>

\* C12: every macro of a Macro Table has for arg_count one more than its
\* highest placeholder, 0 without placeholder. A step at a "!name" line
\* naming an argument macro with another number of blocks than arg_count
\* ends the call with the error "expected N arguments, but received M", no
\* sub-compiler entered and nothing appended by the line; with arg_count
\* blocks the step raises no error but the recursion limit.
ArgCountChecked ==
    /\ [](/\ \A k \in 1..Len(dicts) :
                \A j \in 1..Len(dicts[k]) :
                    "arg_count" \in DOMAIN dicts[k][j] => PlaceholdersCounted(dicts[k][j])
          /\ Failed(SrcArgsNone, "Macro '!g' expected 1 arguments, but received 0.")
          /\ Failed(SrcArgsTwo, "Macro '!g' expected 1 arguments, but received 2.")
          /\ Failed(SrcArgsZero, "Macro '!g' expected 0 arguments, but received 1.")
          /\ Failed(SrcArgsHigh, "Macro '!g' expected 2 arguments, but received 1.")
          /\ source \in {SrcArgsNone, SrcArgsTwo, SrcArgsZero, SrcArgsHigh} => status # "done"
          /\ Compiled(SrcArgsHighBoth) => result = OutPV)
    /\ [][ArgMacroCalled =>
             IF Supplied # Expected
             THEN /\ status' = "error"
                  /\ error' = ArgCountMessage(CallName, Expected, Supplied)
                  /\ result' = <<>>
                  /\ Len(frames') = 1
                  /\ frames'[1].pc = "raised"
                  /\ frames'[1].html_output = OutputAtDispatch
             ELSE /\ error' \in {"", "RecursionError"}
                  /\ status' = "error" => Len(frames) >= MaxDepth]_vars

\* the call with two structural blocks for one placeholder has failed, with
\* output emitted before it
TwoBlocksForOne ==
    /\ status = "error"
    /\ source = SrcArgsTwo
    /\ error = "Macro '!g' expected 1 arguments, but received 2."
    /\ frames[1].html_output # <<>>

\* the block under the "raw" or "raw@" line at which the loop is, as collected
\* and as dedented
BlockAtLine == get_block_lines(Entered, LineLevel.level, Top.lines, Top.i)
RawContent ==
    dedent_block(WithIndent(Entered, BlockAtLine), BlockAtLine.block_lines, LineLevel.level + 1)

\* the loop is at a line "raw" or "raw@" whose block was collected
AtRawBlock(kind) ==
    /\ Dispatched
    /\ ~IllegalIndent
    /\ Kind = kind
    /\ ~BlockAtLine.fatal

\* the step went on by the directive line and as many lines as the block
\* holds, and left the stack alone
BlockConsumed(g) ==
    /\ Len(frames') = Len(frames)
    /\ status' = "running"
    /\ g.i = Top.i + 1 + Len(BlockAtLine.block_lines)
    /\ g.tag_stack = Entered.tag_stack
    /\ g.pushed = Entered.pushed

OutRawNamed ==
    <<"<","p",">",NL>>
    \o <<SP,SP,"a",SP,"b",SP,"a",NL>>
    \o <<SP,SP,TAB,"c","a",NL>>
    \o <<"<","/","p",">",NL>>
    \o <<"<","q",">",NL>>
    \o <<SP,SP,"X",SP,"b",SP,"X",NL>>
    \o <<SP,SP,TAB,"c","X",NL>>
    \o <<"<","/","q",">">>

AtMacroUse(kind) ==
    /\ Dispatched
    /\ ~IllegalIndent
    /\ Kind = kind
    /\ CallName # <<>>

\* the step ended the call with this message, nothing appended by the line
Aborted(message) ==
    /\ status' = "error"
    /\ error' = message
    /\ result' = <<>>
    /\ Len(frames') = 1
    /\ frames'[1].pc = "raised"
    /\ frames'[1].html_output = OutputAtDispatch
    /\ frames'[1].pushed = (IF Len(frames) = 1 THEN Entered.pushed ELSE frames[1].pushed)

OutOpenP == <<"<","p",">",NL>>

\* C14: a step at "!name" for a macro defined without "!" aborts with the
\* message that names "@name", a step at "@name" for a macro defined with
\* "!" aborts with the message that names "!name", and a step at "@name" or
\* "!name" for a name absent from the Macro Table aborts with "Undefined
\* macro"; the output of the top-level instance is the one it had once the
\* closing rule was applied for the line.
WrongFormIsFatal ==
    /\ [](/\ Failed(SrcWrongForm, "Cannot call simple macro '!m' using '!'. Use '@m'.")
          /\ Failed(SrcWrongInvoke,
                    "Cannot invoke argument macro '@g' using '@'. Use '!g'.")
          /\ Failed(SrcUndefinedInvoke, "Undefined macro invoked: '@m'.")
          /\ Failed(SrcUndefinedCall, "Undefined macro called: '!m'.")
          /\ source \in {SrcWrongForm, SrcWrongInvoke, SrcUndefinedInvoke, SrcUndefinedCall}
                => status # "done"
          /\ (status = "error" /\ source \in {SrcUndefinedInvoke, SrcUndefinedCall})
                => frames[1].html_output = OutOpenP)
    /\ [][/\ (AtMacroUse("call") /\ ~Has(Top.macros, CallName)) =>
                Aborted("Undefined macro called: '!" \o Str(CallName) \o "'.")
          /\ (AtMacroUse("invoke") /\ ~Has(Top.macros, CallName)) =>
                Aborted("Undefined macro invoked: '@" \o Str(CallName) \o "'.")
          /\ (/\ AtMacroUse("call")
              /\ Has(Top.macros, CallName)
              /\ ~Get(Top.macros, CallName).is_arg_macro) =>
                Aborted("Cannot call simple macro '!" \o Str(CallName)
                        \o "' using '!'. Use '@" \o Str(CallName) \o "'.")
          /\ (/\ AtMacroUse("invoke")
              /\ Has(Top.macros, CallName)
              /\ Get(Top.macros, CallName).is_arg_macro) =>
                Aborted("Cannot invoke argument macro '@" \o Str(CallName)
                        \o "' using '@'. Use '!" \o Str(CallName) \o "'.")]_vars

\* an argument macro was defined and its invocation with @ has failed
ArgumentMacroInvoked ==
    /\ status = "error"
    /\ source = SrcWrongInvoke
    /\ Has(dicts[frames[1].macros], <<"g">>)
    /\ Get(dicts[frames[1].macros], <<"g">>).is_arg_macro
    /\ error = "Cannot invoke argument macro '@g' using '@'. Use '!g'."

SET == <<"s","e","t">>
MACRO == <<":","m","a","c","r","o">>

\* what stands before and after the first "=" of an inline "set" line
SetName(line) == Strip(UpTo(Drop(line, 4), Find(Drop(line, 4), <<"=">>)))
SetValue(line) == Strip(Drop(Drop(line, 4), Find(Drop(line, 4), <<"=">>) + 1))

\* a directive line whose name is missing
NameMissing(line) ==
    \/ line = SET
    \/ StartsWith(line, SET \o <<SP>>) /\ SetName(line) = <<>>
    \/ line = MACRO
    \/ StartsWith(line, MACRO \o <<SP>>) /\ Strip(Drop(line, 7)) \in {<<>>, <<"!">>}
    \/ line \in {<<"@">>, <<"!">>}

\* an inline "set name = value" whose value is not within double quotes
ValueUnquoted(line) ==
    /\ StartsWith(line, SET \o <<SP>>)
    /\ Find(Drop(line, 4), <<"=">>) > -1
    /\ SetName(line) # <<>>
    /\ ~IsQuoted(SetValue(line))

OutSetAlone ==
    <<"<","p",">",NL>>
    \o <<SP,SP,"<","s","e","t",">",NL>>
    \o <<SP,SP,"<","/","s","e","t",">",NL>>
    \o <<"<","/","p",">",NL>>
    \o <<"<","q",">",NL>>
    \o <<"<","/","q",">">>

OutMacroAlone ==
    <<"<","p",">",NL>>
    \o <<SP,SP,":","m","a","c","r","o",NL>>
    \o <<"<","/","p",">",NL>>
    \o <<"<","q",">",NL>>
    \o <<"<","/","q",">">>

\* C15, as stated: a step at a directive line whose name is missing, or at an
\* inline set whose value is not quoted, ends the call with an error, and no
\* source with the line "set" or ":macro" alone is compiled.
NameMissingIsFatal ==
    /\ [](source \in {SrcSetAlone, SrcMacroAlone, SrcSetNoName, SrcMacroBang,
                      SrcAtAlone, SrcBangAlone, SrcUnquoted} => status # "done")
    /\ [][(/\ Dispatched
           /\ ~IllegalIndent
           /\ NameMissing(Line) \/ ValueUnquoted(Line)) =>
             /\ status' = "error"
             /\ result' = <<>>
             /\ Len(frames') = 1]_vars

\* C15, what the compiler does: the lines "set = ...", ":macro !", "@", "!"
\* and an inline set with an unquoted value end the call with their message,
\* while the line "set" alone is compiled as the tag "set" and the line
\* ":macro" alone as the text ":macro".
NameMissingBareCompiled ==
    /\ [](/\ Failed(SrcSetNoName, "Variable name missing after 'set'.")
          /\ Failed(SrcMacroBang, "Macro name missing after ':macro !'.")
          /\ Failed(SrcAtAlone, "Macro name missing after '@'.")
          /\ Failed(SrcBangAlone, "Macro name missing after '!'.")
          /\ Failed(SrcUnquoted, "Inline set value for 'a' must be enclosed in double quotes.")
          /\ source \in {SrcSetNoName, SrcMacroBang, SrcAtAlone, SrcBangAlone, SrcUnquoted}
                => status # "done"
          /\ Compiled(SrcSetAlone) => result = OutSetAlone
          /\ Compiled(SrcMacroAlone) => result = OutMacroAlone
          /\ source \in {SrcSetAlone, SrcMacroAlone} => status # "error")
    /\ [][/\ (/\ Dispatched
              /\ ~IllegalIndent
              /\ Line \notin {SET, MACRO}
              /\ NameMissing(Line) \/ ValueUnquoted(Line)) =>
                /\ status' = "error"
                /\ result' = <<>>
                /\ Len(frames') = 1
                /\ frames'[1].html_output = OutputAtDispatch
          /\ (Dispatched /\ ~IllegalIndent /\ Line = SET) =>
                (Kind = "tag" /\ status' = "running" /\ frames'[Len(frames)].pushed = Entered.pushed + 1)
          /\ (Dispatched /\ ~IllegalIndent /\ Line = MACRO) =>
                (Kind = "implicit" /\ status' = "running"
                 /\ frames'[Len(frames)].html_output
                       = Entered.html_output \o ParentIndent(Entered) \o MACRO \o <<NL>>)]_vars

\* the line "set" alone was compiled as a tag
BareSetCompiled == Compiled(SrcSetAlone) /\ result = OutSetAlone

OutPClosed == <<"<","p",">",NL>> \o <<"<","/","p",">",NL>>
OutQClosed == <<"<","q",">",NL>> \o <<"<","/","q",">",NL>>

\* C16: a step of a sub-compiler that raises ends the top-level call with
\* the error: the call returns nothing, the top-level instance stays at the
\* line of the failing directive with the output and the tables it had when
\* the sub-compilation started, and no step of the call follows. The
\* variable of a failing set block is not assigned.
SubCompilationFatalAborts ==
    /\ [](/\ status = "error" =>
                (result = <<>> /\ Len(frames) = 1 /\ frames[1].pc = "raised")
          /\ Failed(SrcSetFails, "Invalid indentation increase.")
          /\ Failed(SrcArgFails, "Invalid indentation increase.")
          /\ Failed(SrcNestedFails, "Undefined macro invoked: '@x'.")
          /\ Failed(SrcJumpInMacro, "Invalid indentation increase.")
          /\ source \in {SrcSetFails, SrcArgFails, SrcNestedFails, SrcJumpInMacro}
                => status # "done"
          /\ (status = "error" /\ source = SrcSetFails) =>
                /\ ~Has(dicts[frames[1].variables], <<"v">>)
                /\ frames[1].i = 1
                /\ frames[1].html_output = <<>>
          /\ (status = "error" /\ source = SrcArgFails) =>
                (frames[1].i = 2 /\ frames[1].html_output = <<>>)
          /\ (status = "error" /\ source = SrcNestedFails) =>
                (frames[1].i = 6 /\ frames[1].html_output = OutQClosed)
          /\ (status = "error" /\ source = SrcJumpInMacro) =>
                (frames[1].i = 4 /\ frames[1].html_output = OutPClosed))
    /\ [][/\ (status = "running" /\ Len(frames) > 1 /\ status' = "error") =>
                /\ frames' = <<[frames[1] EXCEPT !.pc = "raised", !.wait = NoWait]>>
                /\ dicts'[frames[1].variables] = dicts[frames[1].variables]
                /\ dicts'[frames[1].macros] = dicts[frames[1].macros]
                /\ result' = <<>>
          /\ status = "error" =>
                \/ calls' = calls + 1
                \/ /\ status' = "error"
                   /\ frames'[1].i = frames[1].i
                   /\ frames'[1].html_output = frames[1].html_output]_vars

\* the fragment of a set block has failed and the variable is not assigned
SetBlockFailed ==
    /\ status = "error"
    /\ source = SrcSetFails
    /\ error = "Invalid indentation increase."
    /\ ~Has(dicts[frames[1].variables], <<"v">>)
    /\ Has(dicts[frames[1].variables], VarA)

\* the loop is at a line of implicit text that starts and ends with a double quote
QuotedLine ==
    /\ Dispatched
    /\ ~IllegalIndent
    /\ Kind = "implicit"
    /\ Len(Line) >= 2
    /\ Head(Line) = QUOTE
    /\ Line[Len(Line)] = QUOTE

\* the level of the text: one below the open tag on top, 0 on an empty stack
TextLevel(self) ==
    IF self.tag_stack = <<>> THEN 0
    ELSE self.tag_stack[Len(self.tag_stack)].indent_level + 1

OutQuoted == <<"a",SP,SP,SP,"b">>
OutQuotedNested ==
    <<"<","p",">",NL>>
    \o <<SP,SP,"<","q",">",NL>>
    \o <<SP,SP,SP,SP,"X",SP,SP,SP,"b",SP,"X",NL>>
    \o <<SP,SP,"<","/","q",">",NL>>
    \o <<"<","/","p",">">>

\* C17: a step at a line of implicit text within double quotes appends one
\* line: two spaces for each level of the text, then what stands between the
\* quotes with the variables substituted and every blank kept; it consumes
\* one line and pushes nothing. "a   b" alone compiles to a   b, and under
\* p and q with a = "X" the line "a   b a" compiles to "    X   b X".
QuotedTextKeepsSpacing ==
    /\ [](/\ Compiled(SrcQuoted) => result = OutQuoted
          /\ Compiled(SrcQuotedNested) => result = OutQuotedNested)
    /\ [][QuotedLine =>
             /\ Len(frames') = Len(frames)
             /\ status' = "running"
             /\ frames'[Len(frames)].html_output
                   = Entered.html_output
                     \o [k \in 1..(2 * TextLevel(Entered)) |-> SP]
                     \o substitute_variables(Entered.variables,
                                             SubSeq(Line, 2, Len(Line) - 1))
                     \o <<NL>>
             /\ frames'[Len(frames)].i = Top.i + 1
             /\ frames'[Len(frames)].tag_stack = Entered.tag_stack
             /\ frames'[Len(frames)].pushed = Entered.pushed]_vars

\* the quoted line under two tags was compiled with its three blanks
QuotedNestedCompiled ==
    /\ Compiled(SrcQuotedNested)
    /\ Occurrences(result, <<"X",SP,SP,SP,"b",SP,"X">>) = 1

\* the pass has started the compile call of a file of this kind
CompileStarted(kind) == \E j \in 1..Len(watch.log) :
                     watch.log[j].event = "compile" /\ watch.log[j].kind = kind

\* in the pass so far, no header was compiled after a source
HeadersThenSources ==
    \A j, k \in 1..Len(watch.log) :
        (j < k /\ watch.log[j].kind = "source") => watch.log[k].kind = "source"

\* once a source is compiled, every header file has been compiled in this pass
EveryHeaderCompiled ==
    CompileStarted("source") =>
        \A h \in 1..Len(watch.header_files) :
            \E j \in 1..Len(watch.log) :
                watch.log[j] = [event |-> "compile", kind |-> "header",
                                path |-> watch.header_files[h]]

\* the definitions of the headers are in the tables of the instance while a
\* source is compiled
HeaderDefinitionsVisible ==
    watch.waiting.kind = "source" =>
        \A h \in 1..Len(watch.header_files) :
            /\ disk[watch.header_files[h]] = HdrDefs =>
                  /\ Has(dicts[frames[1].macros], <<"m">>)
                  /\ Has(dicts[frames[1].variables], VarA)
                  /\ Get(dicts[frames[1].variables], VarA).value = <<"X">>
            /\ disk[watch.header_files[h]] = SrcCallDefines =>
                  /\ Has(dicts[frames[1].macros], <<"g">>)
                  /\ Has(dicts[frames[1].variables], VarA)

\* the files are the headers, the sources and destinations of write_pairs
OnlyDestinationsAdded ==
    DOMAIN disk \subseteq
        {watch.header_files[h] : h \in 1..Len(watch.header_files)}
        \cup {watch.write_pairs[k][1] : k \in 1..Len(watch.write_pairs)}
        \cup {watch.write_pairs[k][2] : k \in 1..Len(watch.write_pairs)}

\* a pass that has ended has written the destination of every source
EveryDestinationWritten ==
    (watch.pc = "idle" /\ watch.passes >= 1) =>
        \A k \in 1..Len(watch.write_pairs) :
            /\ watch.write_pairs[k][2] \in DOMAIN disk
            /\ \E j \in 1..Len(watch.log) :
                  watch.log[j] = [event |-> "write", kind |-> "source",
                                  path |-> watch.write_pairs[k][2]]

OutUseX ==
    <<"<","q",">",NL>>
    \o <<SP,SP,"X",NL>>
    \o <<"<","/","q",">",NL>>
    \o <<"X">>

\* C18: in a pass no header is compiled after a source and every header is
\* compiled before the first source; all compile calls are made on the one
\* instance of the handler, whose tables a call finds as the call before
\* left them, so that what the headers set and defined is there when a
\* source is compiled; the value a source's call returns is written to its
\* destination, and no other file is created or changed. After the header
\* "set a = "X" / :macro m / \tq | a" the source "@m / | a" is written as
\* "<q> / X / </q> / X"; without a header its compile call raises.
HeadersCompiledFirst ==
    /\ [](/\ HeadersThenSources
          /\ EveryHeaderCompiled
          /\ HeaderDefinitionsVisible
          /\ OnlyDestinationsAdded
          /\ EveryDestinationWritten
          /\ frames[1].variables = 1
          /\ frames[1].macros = 2
          /\ (/\ watch.pc = "idle"
              /\ watch.passes >= 1
              /\ Len(watch.header_files) = 1
              /\ disk[HeaderPath(1)] = HdrDefs
              /\ disk[SourcePath(1)] = SrcUse) => disk[DestinationPath(1)] = OutUseX
          /\ (/\ watch.passes >= 1
              /\ watch.header_files = <<>>
              /\ disk[SourcePath(1)] = SrcUse) => watch.pc # "idle")
    /\ [][/\ (NextJob("header") \/ NextJob("source")) =>
                /\ dicts' = dicts
                /\ frames'[1].variables = frames[1].variables
                /\ frames'[1].macros = frames[1].macros
                /\ source' = disk[Head(watch.jobs).path]
          /\ (watch.waiting.kind = "source" /\ status = "done") =>
                disk' = [disk EXCEPT ![watch.waiting.dst] = result]
          /\ watch.waiting.kind = "header" => disk' = disk
          /\ \A p \in DOMAIN disk :
                p[1] # "destination" => (p \in DOMAIN disk' /\ disk'[p] = disk[p])]_vars

\* a pass over two headers and two sources has ended, and the first source was
\* compiled with what the first header defined
PassWritten ==
    /\ watch.pc = "idle"
    /\ watch.passes = 1
    /\ Len(watch.header_files) = 2
    /\ Len(watch.write_pairs) = 2
    /\ disk[HeaderPath(1)] = HdrDefs
    /\ disk[SourcePath(1)] = SrcUse
    /\ disk[DestinationPath(1)] = OutUseX
    /\ DestinationPath(2) \in DOMAIN disk

\* the loop is at a line that starts with the document-type marker
DoctypeLine ==
    /\ Dispatched
    /\ ~IllegalIndent
    /\ Len(Line) >= Len(DOCTYPE)
    /\ Lower(SubSeq(Line, 1, Len(DOCTYPE))) = DOCTYPE

\* C19, as stated: a step at a line that starts with "!DOCTYPE" does not fail,
\* emits an opening tag and pushes one entry, and the source
\* "!DOCTYPE html / html / \tbody" is compiled.
DoctypeIsTag ==
    /\ [](source = SrcDoctype => status # "error")
    /\ [][DoctypeLine =>
             /\ status' = "running"
             /\ Len(frames') = Len(frames)
             /\ frames'[Len(frames)].pushed = Entered.pushed + 1
             /\ Len(frames'[Len(frames)].html_output) > Len(Entered.html_output)]_vars

\* C19, what the compiler does: the line starts with "!" and is taken for a
\* macro call, which fails unless an argument macro of that name is defined;
\* no entry of a tag stack is ever named by the document-type marker.
DoctypeIsMacroCall ==
    /\ [](/\ Failed(SrcDoctype, "Undefined macro called: '!DOCTYPE html'.")
          /\ source = SrcDoctype => status # "done"
          /\ \A n \in 1..Len(frames) :
                \A j \in 1..Len(frames[n].tag_stack) :
                    Lower(frames[n].tag_stack[j].tag_name) # DOCTYPE)
    /\ [][DoctypeLine =>
             /\ Kind = "call"
             /\ ~Has(Top.macros, CallName) =>
                   Aborted("Undefined macro called: '!" \o Str(CallName) \o "'.")]_vars

\* the document-type line has ended the call
DoctypeFailed ==
    /\ status = "error"
    /\ source = SrcDoctype
    /\ error = "Undefined macro called: '!DOCTYPE html'."
    /\ frames[1].html_output = <<>>
    /\ frames[1].pushed = 0

\* the loop is at a line that is blank or holds a comment only
CommentOnlyLine ==
    /\ AtLine
    /\ \/ Strip(CurrentLine) = <<>>
       \/ StartsWith(Strip(CurrentLine), COMMENT)

OutCommentDedent ==
    <<"<","a",">",NL>>
    \o <<SP,SP,"<","b",">",NL>>
    \o <<SP,SP,SP,SP,"<","c",">",NL>>
    \o <<SP,SP,SP,SP,"<","/","c",">",NL>>
    \o <<SP,SP,SP,SP,"<","e",">",NL>>
    \o <<SP,SP,SP,SP,"<","/","e",">",NL>>
    \o <<SP,SP,"<","/","b",">",NL>>
    \o <<"<","/","a",">">>

IndexInRange == \A k \in 1..Len(frames) : frames[k].i <= Len(frames[k].lines)

\* a step of a running compile that brings a call back to its loop, from
\* the dispatch of a line or from the return of the sub-compiler it waited
\* for, has advanced the index of that call by one line at least
IndexAdvances ==
    status = "running" =>
        \A k \in 1..Len(frames) :
            (/\ k <= Len(frames')
             /\ k < Len(frames) \/ frames[k].pc = "loop"
             /\ frames'[k] # frames[k]
             /\ frames'[k].pc = "loop") =>
                /\ frames'[k].lines = frames[k].lines
                /\ frames'[k].i > frames[k].i

\* the loop of lines 778-796 always advances and stays within the line array
LoopAdvances == []IndexInRange /\ [][IndexAdvances]_vars

\* C21, as stated: the loop index strictly increases and stays within the
\* line array, and every compile call that does not return its output, a
\* call on a macro that invokes itself included, ends with one of the fatal
\* errors of the compiler, never with the recursion limit of the interpreter.
CompileEndsInOutputOrFatalError ==
    /\ []IndexInRange
    /\ [][IndexAdvances]_vars
    /\ [](status = "error" => error # "RecursionError")

\* the macro that invokes itself has brought the call to the recursion limit
RecursionLimitHit ==
    /\ status = "error"
    /\ source = SrcRecursive
    /\ error = "RecursionError"

\* the directive at the index of a compile call, and whether it collects a
\* block: set without "=", :macro, raw, raw@ and a call
DirectiveOf(f) == StripComment(Strip(f.lines[f.i + 1]))
CollectsBlock(f) ==
    \/ LineKind(DirectiveOf(f)) \in {"macro", "call", "raw_block", "rawat_block"}
    \/ /\ LineKind(DirectiveOf(f)) = "set"
       /\ Find(Drop(DirectiveOf(f), 4), <<"=">>) = -1

RECURSIVE AllLines(_)
AllLines(blocks) ==
    IF blocks = <<>> THEN <<>> ELSE Head(blocks) \o AllLines(Tail(blocks))

\* the lines the directive of call f has collected, g being the call once
\* the directive has acted, its level the current one
CollectedBy(f, g) ==
    IF LineKind(DirectiveOf(f)) = "call"
    THEN AllLines(get_argument_blocks(g, g.current_indent_level, f.lines, f.i).arg_blocks)
    ELSE get_block_lines(g, g.current_indent_level, f.lines, f.i).block_lines

\* the position in the line array of the last line of block, the block being
\* a run of lines that starts after the directive at index i and after the
\* lines that the collecting loop has passed over
LastCollected(lines, i, block) ==
    LET d == CHOOSE d \in 0..Len(lines) :
                 /\ SubSeq(lines, i + 2 + d, i + 1 + d + Len(block)) = block
                 /\ \A e \in 0..(d - 1) :
                       SubSeq(lines, i + 2 + e, i + 1 + e + Len(block)) # block
    IN  i + 1 + d + Len(block)

\* a step of a running compile brings call k back to its loop after a
\* directive that has collected a block
BlockDirectiveDone(k) ==
    /\ status = "running"
    /\ k <= Len(frames')
    /\ k < Len(frames) \/ frames[k].pc = "loop"
    /\ frames[k].i < Len(frames[k].lines)
    /\ frames'[k] # frames[k]
    /\ frames'[k].pc = "loop"
    /\ CollectsBlock(frames[k])
    /\ CollectedBy(frames[k], frames'[k]) # <<>>

\* C22, as stated: when a directive has collected a block, the loop goes on
\* after the last line of the block, so that no line of the block is
\* dispatched as an ordinary line, whatever stands between the directive and
\* the block.
BlockLinesNeverDispatched ==
    [][\A k \in 1..Len(frames) :
          BlockDirectiveDone(k) =>
              frames'[k].i >= LastCollected(frames[k].lines, frames[k].i,
                                            CollectedBy(frames[k], frames'[k]))]_vars

\* lines 278, 309, 453, 486 and 611-615: what the code does is to go on one
\* line after the directive plus as many lines as the block holds
ConsumedIsBlockLength ==
    [][\A k \in 1..Len(frames) :
          BlockDirectiveDone(k) =>
              frames'[k].i = frames[k].i + 1
                             + Len(CollectedBy(frames[k], frames'[k]))]_vars

\* the second line of the raw block, already emitted raw, stands to be
\* dispatched as an ordinary line
RawLineDispatchedAgain ==
    /\ AtLine
    /\ source = SrcRawBlankFirst
    /\ Top.i = 3
    /\ Top.html_output = <<"x",NL,"y",NL>>

\* the levels of the open entries of instance f strictly increase from the
\* bottom to the top, and the top one is at most the current level
StrictlyIncreasing(f) ==
    /\ \A j \in 1..(Len(f.tag_stack) - 1) :
          f.tag_stack[j].indent_level < f.tag_stack[j + 1].indent_level
    /\ f.tag_stack # <<>> =>
          f.tag_stack[Len(f.tag_stack)].indent_level <= f.current_indent_level

\* the line at which the loop is makes _process_line call _close_tags with
\* the level of the line (lines 221-227)
ClosesToLevel ==
    /\ Dispatched
    /\ ~IllegalIndent
    /\ \/ LineLevel.level < Top.current_indent_level
       \/ /\ LineLevel.level = Top.current_indent_level
          /\ Top.tag_stack # <<>>
          /\ Top.tag_stack[Len(Top.tag_stack)].indent_level = LineLevel.level

\* the entries of f's stack but the n topmost are below level
BelowLevel(f, n, level) ==
    \A j \in 1..(Len(f.tag_stack) - n) : f.tag_stack[j].indent_level < level

\* C23: in every state, in every instance, the levels of the open-tag stack
\* strictly increase from the bottom to the top and the top entry's level is
\* at most the current level; and a step at a line that calls _close_tags(L)
\* leaves below L every entry but the one the line itself may push at L.
StackStrictlyIncreasing ==
    /\ [](\A k \in 1..Len(frames) : StrictlyIncreasing(frames[k]))
    /\ [][(ClosesToLevel /\ Len(frames') >= Len(frames)) =>
             LET f == frames[Len(frames)]
                 g == frames'[Len(frames)]
             IN  /\ g.pushed - f.pushed \in {0, 1}
                 /\ BelowLevel(g, g.pushed - f.pushed, LineLevel.level)
                 /\ g.pushed > f.pushed =>
                       g.tag_stack[Len(g.tag_stack)].indent_level = LineLevel.level]_vars

\* a line two levels below the current one has closed two entries and pushed
\* its own tag on the one that stayed below
ClosedTwoAndPushed ==
    /\ status = "running"
    /\ Top.pc = "loop"
    /\ Len(Top.popped) >= 2
    /\ Len(Top.tag_stack) >= 2
    /\ Top.popped[Len(Top.popped)].entry.indent_level
          = Top.tag_stack[Len(Top.tag_stack)].indent_level
    /\ Top.popped[Len(Top.popped) - 1].entry.indent_level
          > Top.tag_stack[Len(Top.tag_stack)].indent_level

\* the tokens of an attribute string as the parser classifies them, the
\* variables substituted
SubstitutedTokens(variables, attr_string) ==
    [j \in 1..Len(Tokens(attr_string)) |->
        substitute_variables(variables, Tokens(attr_string)[j])]

IsIdToken(t) == StartsWith(t, <<"#">>)
IsNamed(t) == ~IsIdToken(t) /\ Find(t, <<"=">>) # -1
NameOf(t) == Take(t, Find(t, <<"=">>))
ValueOf(t) == EscapeQuotes(AttrValue(Drop(t, Find(t, <<"=">>) + 1)))
IsClassToken(t) == IsNamed(t) /\ Lower(NameOf(t)) = <<"c","l","a","s","s">>
IsOtherToken(t) == IsNamed(t) /\ ~IsClassToken(t)
IsBare(t) == ~IsIdToken(t) /\ ~IsNamed(t)

RECURSIVE Concatenated(_)
Concatenated(seqs) ==
    IF seqs = <<>> THEN <<>> ELSE Head(seqs) \o Concatenated(Tail(seqs))

\* the elements of s from place j on that do not occur at an earlier place
RECURSIVE FirstOccurrencesFrom(_, _)
FirstOccurrencesFrom(s, j) ==
    IF j > Len(s) THEN <<>>
    ELSE (IF \A i \in 1..(j - 1) : s[i] # s[j] THEN <<s[j]>> ELSE <<>>)
         \o FirstOccurrencesFrom(s, j + 1)

\* the remainders of the # tokens, concatenated
IdOf(ts) ==
    LET ids == SelectSeq(ts, IsIdToken)
    IN  Concatenated([j \in 1..Len(ids) |-> Drop(ids[j], 1)])

\* bare words in source order, then the words of class= values in source
\* order, each kept where it first occurs
ClassesOf(ts) ==
    LET explicit == SelectSeq(ts, IsClassToken)
    IN  FirstOccurrencesFrom(
            SelectSeq(ts, IsBare)
            \o Concatenated([j \in 1..Len(explicit) |-> SplitWords(ValueOf(explicit[j]))]),
            1)

\* the other attributes in source order, each as name="value"
OthersOf(ts) ==
    LET others == SelectSeq(ts, IsOtherToken)
    IN  Concatenated([j \in 1..Len(others) |->
                         <<SP>> \o NameOf(others[j]) \o <<"=", QUOTE>>
                         \o ValueOf(others[j]) \o <<QUOTE>>])

\* id if there is one, class if there is one, the others
EmittedFor(ts) ==
    (IF IdOf(ts) = <<>> THEN <<>>
     ELSE <<SP,"i","d","=",QUOTE>> \o EscapeQuotes(IdOf(ts)) \o <<QUOTE>>)
    \o (IF ClassesOf(ts) = <<>> THEN <<>>
        ELSE <<SP,"c","l","a","s","s","=",QUOTE>>
             \o Join(ClassesOf(ts), <<SP>>) \o <<QUOTE>>)
    \o OthersOf(ts)

\* the parser has returned for the attribute string in source
Parsed == calls = 0 /\ status = "done"

\* C24: what the Attribute Parser returns for an attribute string is the id
\* attribute, present when the remainders of the # tokens, concatenated, are
\* not empty; then the class attribute, present when there is a class, its
\* list the bare words in source order followed by the words of the class=
\* values in source order, each kept where it first occurs; then the other
\* attributes as name="value" in source order.
IdClassOthersInOrder ==
    Parsed =>
        /\ result = EmittedFor(SubstitutedTokens(Top.variables, source))
        /\ StartsWith(result, <<SP,"i","d","=">>) =>
              \E j \in 1..Len(Tokens(source)) :
                  IsIdToken(SubstitutedTokens(Top.variables, source)[j])

\* "c class="d c" #a" has given the id first and the class list c d
IdMovedFirstClassesMerged ==
    /\ Parsed
    /\ Top.variables = <<>>
    /\ source = <<"c",SP,"c","l","a","s","s","=",QUOTE,"d",SP,"c",QUOTE,SP,"#","a">>
    /\ result = <<SP,"i","d","=",QUOTE,"a",QUOTE,
                  SP,"c","l","a","s","s","=",QUOTE,"c",SP,"d",QUOTE>>

====
